---------------------------- MODULE Spec2Model ----------------------------
(***************************************************************************)
(* Cairn agent orchestrator (Bullish-Design/nixbox, src/cairn).            *)
(*                                                                         *)
(* Four specifications share this module:                                  *)
(*   QueueSpec   the TaskQueue of src/cairn/queue.py used on its own       *)
(*               (enqueue / dequeue / mark_complete over a heapq list);    *)
(*   Spec        the CairnOrchestrator of src/cairn/orchestrator.py with   *)
(*               MaxAgents agents whose scripts leave the overlay empty:   *)
(*               spawn, worker loop, lifecycle runs, accept / reject /     *)
(*               trash and restart recovery;                               *)
(*   StableSpec  the same orchestrator with MaxStableAgents agents whose   *)
(*               scripts write files and submit, the host-file watcher     *)
(*               mirroring into stable, and retention (cleanup_old);       *)
(*   FsSpec      CairnExternalFunctions (read_file / write_file) of each   *)
(*               agent over its overlay and stable, with merges and the    *)
(*               watcher, as src/tests/cairn/test_external_functions.py    *)
(*               drives them.                                              *)
(***************************************************************************)
EXTENDS Integers, Sequences, FiniteSets, TLC

\* ------------------------------------------------------------------------
\* Bounds of the model (not program constants)
\* ------------------------------------------------------------------------
MaxTasks == 3
MaxClock == 1
MaxQueueConcurrent == 2
MaxAgents == 2
MaxPermits == 1
MaxStableAgents == 1
MaxDispatchAgents == 3
MaxCrashes == 1

\* ------------------------------------------------------------------------
\* Program constants
\* ------------------------------------------------------------------------
LOW == 1
NORMAL == 2
HIGH == 3
URGENT == 4
TaskPriority == {LOW, NORMAL, HIGH, URGENT}

DefaultQueueMaxConcurrent == 5

None == "None"

AgentState == {"queued", "spawning", "generating", "executing", "submitting",
               "reviewing", "accepted", "rejected", "errored"}

\* agent ids: uuid4 never repeats, the k-th spawn of an installation gets id k
Agents == 1..MaxDispatchAgents
NoAgent == 0

\* ------------------------------------------------------------------------
\* File namespace of an AgentFS layer: one file at the root, one in a directory
\* ------------------------------------------------------------------------
Files == {"README", "src/main"}
Dirs == {"src"}
Root == "/"
EntryOrder == <<"README", "src", "src/main">>
ParentOf(n) == IF n = "src/main" THEN "src" ELSE Root

\* file bytes: absent, the UTF-8 bytes of the text agent a writes (a), host
\* bytes mirrored by the watcher (a text file, a file that is not valid UTF-8)
NoFile == 0
HostText == 0 - 1
HostBinary == 0 - 2
EmptyFs == [f \in Files |-> NoFile]

\* str values: <<"str", n>> is the text whose UTF-8 encoding is the bytes n
AgentText(a) == <<"str", a>>

\* str.encode("utf-8")
encode_utf8(text) == text[2]

\* bytes.decode("utf-8"): the text, or UnicodeDecodeError
decode_utf8(bytes) ==
    IF bytes = HostBinary THEN <<"UnicodeDecodeError", 0>> ELSE <<"str", bytes>>

VARIABLES
    \* --- TaskQueue ---
    queue,            \* TaskQueue._queue: the heapq list of QueuedTask
    active_count,     \* TaskQueue.active_count
    completed_count,  \* TaskQueue.completed_count
    max_concurrent,   \* TaskQueue.max_concurrent (constructor argument)
    clock,            \* the value time.time() returns now
    next_task,        \* number of enqueue calls so far + 1 (names the tasks in enqueue order)
    dq_result,        \* value returned by the latest TaskQueue.dequeue call: <<>> for None, <<t>> for task t
    \* --- CairnOrchestrator, in memory (lost when the process dies) ---
    phase,            \* "down": constructed or crashed, initialize() not run; "up": initialized
    max_concurrent_agents, \* config.max_concurrent_agents
    active_agents,    \* keys of self.active_agents
    ctx,              \* the AgentContext object of each agent of this process
    to_enqueue,       \* spawn_agent calls that saved the record and have not enqueued yet
    worker_holding,   \* agent id _worker_loop has dequeued and is acquiring a permit for
    sem,              \* self._semaphore._value (free permits)
    run,              \* position of each agent's _run_agent task
    acc,              \* position of the accept_agent call in flight for each agent
    rej,              \* position of the reject_agent call in flight for each agent
    merge_todo,       \* entries _merge_overlay_to_stable still has to visit, per accept
    \* --- persistent (on disk) ---
    lifecycle,        \* LifecycleStore: agent id -> LifecycleRecord
    db_file,          \* where the overlay file of an agent is: "none", "active" (<id>.db), "bin" (bin-<id>.db)
    overlay,          \* file namespace of each agent's AgentFS
    kv_submission,    \* key "submission" of each agent's AgentFS KV
    stable,           \* file namespace of stable.db
    next_agent,       \* number of agents spawned so far + 1
    \* --- history ---
    acc_hist,         \* per agent: "never", "called" (accept_agent started), "returned" (it returned normally), "raised" (a file failed)
    acc_pre,          \* stable as it was when the accept in flight started
    acc_clean,        \* accept in flight: "quiet", "cmdclean" (only non-command writers ran), "dirty"
    read_result,      \* <<agent, path, outcome>> of the latest read_file call, <<>> before the first
    cleaned,          \* value returned by the latest cleanup_old call
    cleanup_call,     \* <<number of cleanup_old calls counted by RetentionCleanup, max_age_seconds of the latest>>
    crashes,          \* process deaths counted by CrashCounted
    run_hist,         \* per agent: the states spawn_agent and _run_agent persisted, in order
    \* --- command parsing (commands.py) ---
    parse_in,         \* <<command_type, payload>> handed to parse_command_payload
    parse_out,        \* what that call produced: a command or the exception raised
    reparse_out,      \* what parsing parse_out's to_payload() produced
    \* --- signal polling (signals.py) ---
    signals_dir,      \* .cairn/signals: stem of each *.json file -> what the file holds
    poller,           \* SignalHandler.watch: "sleeping", "polling" (in process_signals_once), "dead"
    poll_todo,        \* files of the current poll not yet reached by the for loop
    handled,          \* every file the for loop has handled, in order: stem, content, command, outcome
    dropped,          \* stems some tool has dropped into the directory so far
    \* --- the two adapters on one operation (cli.py, signals.py) ---
    adapter_in,       \* <<operation, argument>> given to both adapters
    cli_out,          \* the command the CLI adapter built for it, or the exception raised
    sig_file,         \* the signal file written for it
    sig_out,          \* what _parse_signal_file made of sig_file
    \* --- status reports (orchestrator.py) ---
    \* --- results kept in the agent context (agent.py) ---
    generated_code,   \* ctx.generated_code: what llm.generate returned for the agent
    execution_result, \* ctx.execution_result: what executor.execute returned for the agent
    \* --- the submission of one agent (external_functions.py, kv_store.py) ---
    sub_script,       \* <<payload>> the script or a legacy writer last stored, <<>> before
    sub_kv,           \* key "submission" of the overlay KV: <<JSON object>>, <<>> when unset
    sub_runner,       \* ctx.submission as _run_agent's submitting phase left it, <<>> for None
    sub_loaded,       \* <<result>> of the latest load_submission call, <<>> for None
    report            \* per agent: the state the latest Status or ListAgents reported, "unasked" if it did not cover the agent

qvars == <<queue, active_count, completed_count, max_concurrent, clock, next_task, dq_result>>

cmdvars == <<parse_in, parse_out, reparse_out>>
sigvars == <<signals_dir, poller, poll_todo, handled, dropped>>
adaptvars == <<adapter_in, cli_out, sig_file, sig_out>>
runvars == <<generated_code, execution_result>>
subvars == <<sub_script, sub_kv, sub_runner, sub_loaded>>

\* variables no orchestrator step changes
fixed == <<active_count, completed_count, max_concurrent, next_task, dq_result,
           max_concurrent_agents, cmdvars, sigvars, adaptvars, report, runvars, subvars>>

\* variables only a few orchestrator steps change
frozen == <<fixed, read_result, cleaned, cleanup_call, crashes, run_hist>>

memvars == <<phase, active_agents, ctx, to_enqueue, worker_holding, sem, run, acc, rej, merge_todo>>
diskvars == <<lifecycle, db_file, overlay, kv_submission, stable, next_agent>>
histvars == <<acc_hist, acc_pre, acc_clean>>

vars == <<queue, clock, frozen, memvars, diskvars, histvars>>

\* ------------------------------------------------------------------------
\* QueuedTask and its ordering (dataclass(order=True), only _sort_key compares)
\* ------------------------------------------------------------------------
QueuedTask(task, priority, created_at) ==
    [task |-> task, priority |-> priority, created_at |-> created_at]

\* Mutant: the key keeps the priority's sign, so LOW sorts before URGENT.
sort_key_lt_unnegated(x, y) ==
    \/ x.priority < y.priority
    \/ /\ x.priority = y.priority
       /\ x.created_at < y.created_at

\* Mutant: the key is the priority alone, created_at does not break ties.
sort_key_lt_priority_only(x, y) ==
    (0 - x.priority) < (0 - y.priority)

\* _sort_key = (-int(priority), created_at), compared as a tuple
sort_key_lt(x, y) ==
    \/ (0 - x.priority) < (0 - y.priority)
    \/ /\ x.priority = y.priority
       /\ x.created_at < y.created_at

\* ------------------------------------------------------------------------
\* heapq (CPython Lib/heapq.py), on 0-based positions of a 1-based sequence
\* ------------------------------------------------------------------------
RECURSIVE siftdown(_, _, _, _)
siftdown(heap, startpos, pos, newitem) ==
    IF pos > startpos
    THEN LET parentpos == (pos - 1) \div 2
             parent == heap[parentpos + 1]
         IN  IF sort_key_lt(newitem, parent)
             THEN siftdown([heap EXCEPT ![pos + 1] = parent], startpos, parentpos, newitem)
             ELSE [heap EXCEPT ![pos + 1] = newitem]
    ELSE [heap EXCEPT ![pos + 1] = newitem]

RECURSIVE siftup_loop(_, _, _)
siftup_loop(heap, pos, newitem) ==
    LET endpos == Len(heap)
        leftpos == 2 * pos + 1
        rightpos == leftpos + 1
        childpos == IF rightpos < endpos /\ ~ sort_key_lt(heap[leftpos + 1], heap[rightpos + 1])
                    THEN rightpos ELSE leftpos
    IN  IF leftpos < endpos
        THEN siftup_loop([heap EXCEPT ![pos + 1] = heap[childpos + 1]], childpos, newitem)
        ELSE <<[heap EXCEPT ![pos + 1] = newitem], pos>>

siftup(heap, pos) ==
    LET r == siftup_loop(heap, pos, heap[pos + 1])
    IN  siftdown(r[1], pos, r[2], heap[pos + 1])

heappush(heap, item) ==
    siftdown(Append(heap, item), 0, Len(heap), item)

\* <<returned item, heap afterwards>>; the caller guarantees heap # <<>>
heappop(heap) ==
    LET lastelt == heap[Len(heap)]
        rest == SubSeq(heap, 1, Len(heap) - 1)
    IN  IF rest # <<>>
        THEN <<rest[1], siftup([rest EXCEPT ![1] = lastelt], 0)>>
        ELSE <<lastelt, rest>>

\* ------------------------------------------------------------------------
\* TaskQueue operations
\* ------------------------------------------------------------------------
enqueue(task, priority) ==
    /\ queue' = heappush(queue, QueuedTask(task, priority, clock))

dequeue_ungated ==
    IF queue = <<>>
    THEN /\ dq_result' = <<>>
         /\ UNCHANGED <<queue, active_count>>
    ELSE LET r == heappop(queue)
         IN  /\ queue' = r[2]
             /\ active_count' = active_count + 1
             /\ dq_result' = <<r[1]>>

dequeue ==
    IF active_count >= max_concurrent \/ queue = <<>>
    THEN /\ dq_result' = <<>>
         /\ UNCHANGED <<queue, active_count>>
    ELSE LET r == heappop(queue)
         IN  /\ queue' = r[2]
             /\ active_count' = active_count + 1
             /\ dq_result' = <<r[1]>>

mark_complete ==
    IF active_count > 0
    THEN /\ active_count' = active_count - 1
         /\ completed_count' = completed_count + 1
    ELSE UNCHANGED <<active_count, completed_count>>

\* ------------------------------------------------------------------------
\* Initial values: a constructed CairnOrchestrator on an empty installation
\* ------------------------------------------------------------------------
NoCtx ==
    [state |-> "none", priority |-> 0, created_at |-> 0, state_changed_at |-> 0,
     submission |-> None, error |-> None]

NoRecord ==
    [state |-> "none", priority |-> 0, created_at |-> 0, state_changed_at |-> 0,
     submission |-> None, error |-> None, db_path |-> "none"]

\* ------------------------------------------------------------------------
\* Commands (commands.py).  An optional field is <<>> (None; in a payload, key
\* absent) or <<value>>; metadata is "{}" (empty mapping), "{k}" (a non-empty
\* mapping) or "[]" (a JSON value that is not a mapping).  Priorities in a
\* payload are integers.
\* ------------------------------------------------------------------------
CommandType == {"queue", "accept", "reject", "status", "list_agents"}

\* str.strip().lower().replace("-", "_") on the tags the model draws
Normalized(raw) ==
    CASE raw = "Spawn" -> "spawn"
      [] raw = "Accept" -> "accept"
      [] raw = "list-agents" -> "list_agents"
      [] OTHER -> raw

\* a tag is <<"enum", member>> (a CommandType instance) or <<"str", text>>;
\* the result is [ok, type, alias], ok = FALSE standing for the ValueError
_parse_command_type(command_type) ==
    IF command_type[1] = "enum"
    THEN [ok |-> TRUE, type |-> command_type[2], alias |-> FALSE]
    ELSE LET normalized == Normalized(command_type[2]) IN
         IF normalized = "spawn"
         THEN [ok |-> TRUE, type |-> "queue", alias |-> TRUE]
         ELSE IF normalized \in CommandType
              THEN [ok |-> TRUE, type |-> normalized, alias |-> FALSE]
              ELSE [ok |-> FALSE, type |-> "none", alias |-> FALSE]

default_priority_normal(is_spawn_alias) == NORMAL

default_priority(is_spawn_alias) == IF is_spawn_alias THEN HIGH ELSE NORMAL

NoCommand ==
    [type |-> "none", agent_id |-> <<>>, task |-> <<>>, priority |-> <<>>, metadata |-> "{}"]

Raised(exc) == [status |-> exc, command |-> NoCommand]

Falsy(opt) == opt = <<>> \/ opt = <<"">>

post_init_raises_lenient(c) ==
    c.type = "queue" /\ Falsy(c.task)

\* CairnCommand.__post_init__: TRUE when construction raises ValueError
post_init_raises(c) ==
    \/ c.type = "queue" /\ Falsy(c.task)
    \/ c.type \in {"accept", "reject", "status"} /\ Falsy(c.agent_id)

CairnCommand(type, agent_id, task, priority, metadata) ==
    LET c == [type |-> type, agent_id |-> agent_id, task |-> task,
              priority |-> priority, metadata |-> metadata] IN
    IF post_init_raises(c) THEN Raised("ValueError") ELSE [status |-> "ok", command |-> c]

parse_command_payload(command_type, payload) ==
    LET parsed == _parse_command_type(command_type)
        metadata == IF payload.metadata \in {<<"{}">>, <<"{k}">>} THEN payload.metadata[1] ELSE "{}"
        raw_priority == IF payload.priority = <<>>
                        THEN default_priority(parsed.alias)
                        ELSE payload.priority[1]
    IN
    IF ~ parsed.ok THEN Raised("ValueError")
    ELSE IF parsed.type = "queue"
         THEN IF raw_priority \notin TaskPriority
              THEN Raised("ValueError")
              ELSE CairnCommand(parsed.type, payload.agent_id, payload.task, <<raw_priority>>, metadata)
         ELSE CairnCommand(parsed.type, payload.agent_id, payload.task, <<>>, metadata)

to_payload_without_priority(c) ==
    [type |-> <<c.type>>, agent_id |-> c.agent_id, task |-> c.task,
     priority |-> <<>>,
     metadata |-> IF c.metadata = "{}" THEN <<>> ELSE <<c.metadata>>]

to_payload(c) ==
    [type |-> <<c.type>>, agent_id |-> c.agent_id, task |-> c.task,
     priority |-> c.priority,
     metadata |-> IF c.metadata = "{}" THEN <<>> ELSE <<c.metadata>>]

NoCall == <<>>
NoResult == [status |-> "none", command |-> NoCommand]

CommandIdle ==
    /\ parse_in = NoCall
    /\ parse_out = NoResult
    /\ reparse_out = NoResult

\* ------------------------------------------------------------------------
\* Signal files (signals.py).  A file stem is [prefix, rest]: the text
\* prefix + "-" + rest when prefix is one of the compatibility prefixes, the
\* text rest alone when prefix is "".
\* ------------------------------------------------------------------------
EmptyPayload ==
    [type |-> <<>>, agent_id |-> <<>>, task |-> <<>>, priority |-> <<>>, metadata |-> <<>>]

\* what read_text / json.loads make of a file: a JSON object, text that is
\* not a JSON object ("garbage"), bytes that are not UTF-8 ("binary"), or no
\* file at all ("absent")
Object(payload) == [kind |-> "object", payload |-> payload]
Garbage == [kind |-> "garbage", payload |-> EmptyPayload]
Binary == [kind |-> "binary", payload |-> EmptyPayload]
Absent == [kind |-> "absent", payload |-> EmptyPayload]

Stem(prefix, rest) == [prefix |-> prefix, rest |-> rest]

\* the stem as one text, for the stems the model draws
StemText(stem) ==
    CASE stem.prefix = "" -> stem.rest
      [] stem = Stem("spawn", "x") -> "spawn-x"
      [] stem = Stem("queue", "x") -> "queue-x"
      [] stem = Stem("accept", "a1") -> "accept-a1"
      [] stem = Stem("reject", "a1") -> "reject-a1"
      [] stem = Stem("accept", "t") -> "accept-t"
      [] stem = Stem("reject", "t") -> "reject-t"
      [] OTHER -> "other"

\* stem.replace(prefix + "-", "", 1): the first occurrence goes, wherever it is
replace_first(stem, prefix) ==
    IF stem.prefix = prefix THEN stem.rest
    ELSE IF stem = Stem("", "x-accept-a1") /\ prefix = "accept" THEN "x-a1"
    ELSE StemText(stem)

\* raised = TRUE stands for the UnicodeDecodeError read_text lets through
_load_payload(content) ==
    CASE content.kind = "binary" -> [raised |-> TRUE, payload |-> EmptyPayload]
      [] content.kind = "object" -> [raised |-> FALSE, payload |-> content.payload]
      [] OTHER -> [raised |-> FALSE, payload |-> EmptyPayload]

COMPATIBILITY_SIGNAL_TYPES ==
    [spawn |-> <<"str", "spawn">>, queue |-> <<"enum", "queue">>,
     accept |-> <<"enum", "accept">>, reject |-> <<"enum", "reject">>]

\* <<>> for None
_compatibility_command_type(stem) ==
    IF stem.prefix \in DOMAIN COMPATIBILITY_SIGNAL_TYPES
    THEN <<COMPATIBILITY_SIGNAL_TYPES[stem.prefix]>>
    ELSE <<>>

\* the comparison is with the tag as given, not with its normalized form
_apply_compatibility_defaults(payload, stem, command_type) ==
    LET normalized_type == command_type[2] IN
    IF normalized_type \in {"accept", "reject"} /\ payload.agent_id = <<>>
    THEN [payload EXCEPT !.agent_id = <<replace_first(stem, normalized_type)>>]
    ELSE payload

Skipped == [status |-> "skipped", command |-> NoCommand]

_parse_signal_file(stem, content) ==
    LET loaded == _load_payload(content)
        payload == loaded.payload
        command_type == IF payload.type \in {<<>>, <<"">>}
                        THEN _compatibility_command_type(stem)
                        ELSE <<<<"str", payload.type[1]>>>>
    IN
    IF loaded.raised THEN Raised("UnicodeDecodeError")
    ELSE IF command_type = <<>> THEN Skipped
    ELSE parse_command_payload(
             command_type[1],
             _apply_compatibility_defaults(payload, stem, command_type[1]))

SignalStems ==
    {Stem("accept", "a1"), Stem("", "custom"), Stem("queue", "x"), Stem("reject", "a1"),
     Stem("spawn", "x"), Stem("", "x-accept-a1")}

\* the stems in the order sorted() gives their paths
FileOrder ==
    <<Stem("accept", "a1"), Stem("", "custom"), Stem("queue", "x"), Stem("reject", "a1"),
      Stem("spawn", "x"), Stem("", "x-accept-a1")>>

SignalIdle ==
    /\ signals_dir = [stem \in SignalStems |-> Absent]
    /\ poller = "sleeping"
    /\ poll_todo = <<>>
    /\ handled = <<>>
    /\ dropped = {}

\* ------------------------------------------------------------------------
\* The CLI adapter (cli.py): the command each subcommand builds
\* ------------------------------------------------------------------------
_run_spawn_normal(task) ==
    parse_command_payload(<<"str", "spawn">>,
                          [EmptyPayload EXCEPT !.task = <<task>>, !.priority = <<NORMAL>>])

_run_spawn(task) ==
    parse_command_payload(<<"str", "spawn">>,
                          [EmptyPayload EXCEPT !.task = <<task>>, !.priority = <<HIGH>>])

_run_queue(task) ==
    parse_command_payload(<<"str", "queue">>,
                          [EmptyPayload EXCEPT !.task = <<task>>, !.priority = <<NORMAL>>])

_run_accept(agent_id) ==
    parse_command_payload(<<"str", "accept">>, [EmptyPayload EXCEPT !.agent_id = <<agent_id>>])

_run_reject(agent_id) ==
    parse_command_payload(<<"str", "reject">>, [EmptyPayload EXCEPT !.agent_id = <<agent_id>>])

NoFileYet == [stem |-> Stem("", ""), content |-> Absent]

AdapterIdle ==
    /\ adapter_in = NoCall
    /\ cli_out = NoResult
    /\ sig_file = NoFileYet
    /\ sig_out = NoResult

\* ------------------------------------------------------------------------
\* Submissions (external_functions.py, kv_store.py).  A JSON object is the
\* record with its keys; a JSON text is modelled by the object it denotes.
\* ------------------------------------------------------------------------
Summaries == {"fix", "refactor", ""}
ChangedFileLists == {<<>>, <<"README">>, <<"README", "src/main">>}

\* SubmissionPayload(summary, changed_files).model_dump()
SubmissionPayload(summary, changed_files) == [summary |-> summary, changed_files |-> changed_files]
SubmissionPayloads == {SubmissionPayload(s, f) : s \in Summaries, f \in ChangedFileLists}

\* SubmissionRecord(agent_id, submission).model_dump_json(), as kv.set stores it
save_submission(agent_id, submission) == [agent_id |-> agent_id, submission |-> submission]

\* load_submission: None when the key is unset, the "submission" member of
\* the typed form, the whole object of the legacy form
load_submission(data) ==
    IF data = <<>> THEN <<>>
    ELSE IF "submission" \in DOMAIN data[1] THEN <<data[1].submission>>
    ELSE <<data[1]>>

\* submission_raw = kv.get("submission"); if submission_raw:
\* ctx.submission = json.loads(submission_raw)
runner_submission(data, current) ==
    IF data = <<>> THEN current ELSE <<data[1]>>

\* ------------------------------------------------------------------------
\* Generated code and execution results (executor.py)
\* ------------------------------------------------------------------------
NoCode == "none"

\* texts a language model can return: a script that compiles, one that
\* compiles and imports a module, one that does not compile
GeneratedCodes == {"script", "script with import", "syntax error"}

\* AgentExecutor.validate_code: compile(code, "<string>", "exec") succeeds
validate_code(code) == code # "syntax error"

ExecutionResult(success, error_type) == [success |-> success, error_type |-> error_type]

NoExecution == ExecutionResult(FALSE, "not run")

\* what AgentExecutor.execute can return
ExecutionResults ==
    {ExecutionResult(TRUE, "none")} \cup
        {ExecutionResult(FALSE, t) :
            t \in {"syntax", "runtime", "timeout", "memory", "recursion", "unknown"}}

failed(result) == ~ result.success

CoreInit ==
    /\ active_agents = {}
    /\ ctx = [a \in Agents |-> NoCtx]
    /\ to_enqueue = {}
    /\ worker_holding = NoAgent
    /\ sem = max_concurrent_agents
    /\ run = [a \in Agents |-> "none"]
    /\ acc = [a \in Agents |-> "idle"]
    /\ rej = [a \in Agents |-> "idle"]
    /\ merge_todo = [a \in Agents |-> <<>>]
    /\ lifecycle = [a \in Agents |-> NoRecord]
    /\ db_file = [a \in Agents |-> "none"]
    /\ overlay = [a \in Agents |-> EmptyFs]
    /\ kv_submission = [a \in Agents |-> None]
    /\ stable = EmptyFs
    /\ next_agent = 1
    /\ acc_hist = [a \in Agents |-> "never"]
    /\ acc_pre = [a \in Agents |-> EmptyFs]
    /\ acc_clean = [a \in Agents |-> "quiet"]
    /\ read_result = <<>>
    /\ cleaned = 0
    /\ cleanup_call = <<0, 0>>
    /\ crashes = 0
    /\ run_hist = [a \in Agents |-> <<>>]
    /\ report = [a \in Agents |-> "unasked"]
    /\ generated_code = [a \in Agents |-> NoCode]
    /\ execution_result = [a \in Agents |-> NoExecution]
    /\ sub_script = <<>>
    /\ sub_kv = <<>>
    /\ sub_runner = <<>>
    /\ sub_loaded = <<>>

OrchInit ==
    /\ CoreInit
    /\ CommandIdle
    /\ SignalIdle
    /\ AdapterIdle

\* ------------------------------------------------------------------------
\* QueueSpec: a client calling the TaskQueue in any order
\* ------------------------------------------------------------------------
orchvars == <<cmdvars, sigvars, adaptvars, report, runvars, subvars, max_concurrent_agents, read_result, cleaned, cleanup_call, crashes, run_hist, memvars, diskvars, histvars>>

QInit ==
    /\ queue = <<>>
    /\ active_count = 0
    /\ completed_count = 0
    /\ max_concurrent \in 1..MaxQueueConcurrent
    /\ clock = 0
    /\ next_task = 1
    /\ dq_result = <<>>
    /\ max_concurrent_agents = 1
    /\ phase = "down"
    /\ OrchInit

QEnqueue ==
    /\ next_task <= MaxTasks
    /\ \E p \in TaskPriority : enqueue(next_task, p)
    /\ next_task' = next_task + 1
    /\ UNCHANGED <<active_count, completed_count, max_concurrent, clock, dq_result, orchvars>>

QDequeue ==
    /\ dequeue
    /\ UNCHANGED <<completed_count, max_concurrent, clock, next_task, orchvars>>

QMarkComplete ==
    /\ mark_complete
    /\ UNCHANGED <<queue, max_concurrent, clock, next_task, dq_result, orchvars>>

\* time passes: a later time.time() call returns a larger value
Tick ==
    /\ clock < MaxClock
    /\ clock' = clock + 1
    /\ UNCHANGED <<queue, frozen, memvars, diskvars, histvars>>

QNext == QEnqueue \/ QDequeue \/ QMarkComplete \/ Tick

QueueSpec == QInit /\ [][QNext]_vars

\* ------------------------------------------------------------------------
\* AgentFS file namespace
\* ------------------------------------------------------------------------
Exists(fs, n) ==
    IF n \in Files THEN fs[n] # NoFile
    ELSE \E f \in Files : ParentOf(f) = n /\ fs[f] # NoFile

\* fs.readdir(dir): the entries directly under dir, in name order
readdir(fs, dir) ==
    SelectSeq(EntryOrder, LAMBDA n : ParentOf(n) = dir /\ Exists(fs, n))

\* fs.write_file(path, bytes) on a layer
fs_write_file(fs, path, bytes) == [fs EXCEPT ![path] = bytes]

\* ------------------------------------------------------------------------
\* CairnExternalFunctions of agent a
\* ------------------------------------------------------------------------
\* read_file(path): the overlay first, stable on FileNotFoundError, then decode
read_file(a, path) ==
    IF overlay[a][path] # NoFile THEN decode_utf8(overlay[a][path])
    ELSE IF stable[path] # NoFile THEN decode_utf8(stable[path])
    ELSE <<"FileNotFoundError", 0>>

\* Mutant: the write goes through to stable as well.
write_file_through(a, path, content) ==
    /\ overlay' = [overlay EXCEPT ![a] = fs_write_file(overlay[a], path, encode_utf8(content))]
    /\ stable' = fs_write_file(stable, path, encode_utf8(content))

\* write_file(path, content): the encoded content goes to the agent overlay only
write_file(a, path, content) ==
    /\ overlay' = [overlay EXCEPT ![a] = fs_write_file(overlay[a], path, encode_utf8(content))]
    /\ UNCHANGED stable

\* ------------------------------------------------------------------------
\* _merge_overlay_to_stable: todo holds the entries still to visit, in the
\* order the recursion visits them
\* ------------------------------------------------------------------------
\* Mutant: a directory entry is skipped instead of merged recursively.
merge_entry_flat(todo, src, dst) ==
    LET entry == Head(todo)
    IN  IF entry \in Dirs
        THEN <<Tail(todo), dst>>
        ELSE <<Tail(todo), fs_write_file(dst, entry, src[entry])>>

\* one iteration of "for entry in entries": <<entries left, target afterwards>>
merge_entry(todo, src, dst) ==
    LET entry == Head(todo)
    IN  IF entry \in Dirs
        THEN <<readdir(src, entry) \o Tail(todo), dst>>
        ELSE <<Tail(todo), fs_write_file(dst, entry, src[entry])>>

\* the whole merge, run without interruption
RECURSIVE merge_overlay_to_stable(_, _, _)
merge_overlay_to_stable(todo, src, dst) ==
    IF todo = <<>> THEN dst
    ELSE LET r == merge_entry(todo, src, dst)
         IN  merge_overlay_to_stable(r[1], src, r[2])

\* ------------------------------------------------------------------------
\* AgentContext and LifecycleRecord
\* ------------------------------------------------------------------------
\* Mutant: the transition keeps the old timestamp.
transition_unstamped(c, new_state) ==
    [c EXCEPT !.state = new_state]

\* AgentContext.transition
transition(c, new_state) ==
    [c EXCEPT !.state = new_state, !.state_changed_at = clock]

\* the LifecycleRecord _save_lifecycle_record builds for context c of agent a:
\* db_path names <id>.db when that file exists and bin-<id>.db otherwise
LifecycleRecordOf(c, a) ==
    [state |-> c.state, priority |-> c.priority, created_at |-> c.created_at,
     state_changed_at |-> c.state_changed_at, submission |-> c.submission,
     error |-> c.error,
     db_path |-> IF db_file[a] = "active" THEN "active" ELSE "bin"]

\* the AgentContext recovery rebuilds from a record
ContextOf(rec) ==
    [state |-> rec.state, priority |-> rec.priority, created_at |-> rec.created_at,
     state_changed_at |-> rec.state_changed_at, submission |-> rec.submission,
     error |-> rec.error]

\* _handle_status: the in-memory state when the agent is in memory, else the
\* persisted record's state, else "none" (KeyError)
StatusOf(a) ==
    IF a \in active_agents THEN ctx[a].state ELSE lifecycle[a].state

\* ------------------------------------------------------------------------
\* History of the accept in flight (used by the claims about accept only)
\* ------------------------------------------------------------------------
Degrade(v, kind) ==
    IF kind = "cmd" THEN "dirty"
    ELSE IF v = "quiet" THEN "cmdclean" ELSE v

\* a step of kind "cmd" (another command) or "write" (watcher, script) ran while
\* the accepts of the agents in S were in flight
Interfere(S, kind) ==
    acc_clean' = [b \in Agents |->
                    IF b \in S /\ acc[b] # "idle" THEN Degrade(acc_clean[b], kind)
                    ELSE acc_clean[b]]

\* ------------------------------------------------------------------------
\* spawn_agent (submit_command(Queue))
\* ------------------------------------------------------------------------
\* open the overlay, create the context, persist the record
SpawnBegin(p) ==
    /\ phase = "up"
    /\ next_agent \in Agents
    /\ LET a == next_agent
           c == [state |-> "queued", priority |-> p, created_at |-> clock,
                 state_changed_at |-> clock, submission |-> None, error |-> None]
       IN  /\ db_file' = [db_file EXCEPT ![a] = "active"]
           /\ ctx' = [ctx EXCEPT ![a] = c]
           /\ active_agents' = active_agents \cup {a}
           /\ lifecycle' = [lifecycle EXCEPT ![a] = [LifecycleRecordOf(c, a) EXCEPT !.db_path = "active"]]
           /\ to_enqueue' = to_enqueue \cup {a}
           /\ next_agent' = a + 1
           /\ run_hist' = [run_hist EXCEPT ![a] = <<"queued">>]
    /\ Interfere(Agents, "cmd")
    /\ UNCHANGED <<queue, clock, fixed, read_result, cleaned, cleanup_call, crashes, phase, worker_holding, sem, run, acc, rej, merge_todo,
                   overlay, kv_submission, stable, acc_hist, acc_pre>>

\* Mutant: the id is pushed and spawn_agent comes round to push it again.
SpawnEnqueue_again(a) ==
    /\ a \in to_enqueue
    /\ enqueue(a, ctx[a].priority)
    /\ to_enqueue' = to_enqueue
    /\ Interfere(Agents, "cmd")
    /\ UNCHANGED <<clock, frozen, phase, active_agents, ctx, worker_holding, sem, run, acc, rej,
                   merge_todo, diskvars, acc_hist, acc_pre>>

\* queue.enqueue(agent_id, priority), then spawn_agent returns the id
SpawnEnqueue(a) ==
    /\ a \in to_enqueue
    /\ enqueue(a, ctx[a].priority)
    /\ to_enqueue' = to_enqueue \ {a}
    /\ Interfere(Agents, "cmd")
    /\ UNCHANGED <<clock, frozen, phase, active_agents, ctx, worker_holding, sem, run, acc, rej,
                   merge_todo, diskvars, acc_hist, acc_pre>>

\* ------------------------------------------------------------------------
\* _worker_loop
\* ------------------------------------------------------------------------
\* queue.dequeue_wait(): blocks while the queue is empty, then removes and
\* returns the first task in (-priority, enqueued_at) order
dequeue_wait ==
    /\ queue # <<>>
    /\ queue' = heappop(queue)[2]

\* the QueuedTask that dequeue_wait call returns
queued == heappop(queue)[1]

\* queued = await self.queue.dequeue_wait(); await self._semaphore.acquire():
\* acquire returns at once when a permit is free (the run is created in the
\* same step) and suspends the loop, holding the dequeued task, when none is
WorkerDequeue ==
    /\ phase = "up"
    /\ worker_holding = NoAgent
    /\ dequeue_wait
    /\ IF sem > 0
       THEN /\ sem' = sem - 1
            /\ run' = [run EXCEPT ![queued.task] = "begin"]
            /\ UNCHANGED worker_holding
       ELSE /\ worker_holding' = queued.task
            /\ UNCHANGED <<sem, run>>
    /\ UNCHANGED <<clock, frozen, phase, active_agents, ctx, to_enqueue, acc, rej,
                   merge_todo, diskvars, histvars>>

\* Mutant: the run is started without waiting for a permit.
WorkerDispatch_ungated ==
    /\ phase = "up"
    /\ worker_holding # NoAgent
    /\ sem' = sem - 1
    /\ run' = [run EXCEPT ![worker_holding] = "begin"]
    /\ worker_holding' = NoAgent
    /\ UNCHANGED <<queue, clock, frozen, phase, active_agents, ctx, to_enqueue, acc, rej,
                   merge_todo, diskvars, histvars>>

\* the suspended acquire is woken by a release: asyncio.create_task(self._run_agent(agent_id))
WorkerDispatch ==
    /\ phase = "up"
    /\ worker_holding # NoAgent
    /\ sem > 0
    /\ sem' = sem - 1
    /\ run' = [run EXCEPT ![worker_holding] = "begin"]
    /\ worker_holding' = NoAgent
    /\ UNCHANGED <<queue, clock, frozen, phase, active_agents, ctx, to_enqueue, acc, rej,
                   merge_todo, diskvars, histvars>>

\* ------------------------------------------------------------------------
\* _run_agent.  A step is the code between two suspending awaits; the record
\* is written by the kv.set call that ends the step.
\* ------------------------------------------------------------------------
\* the closure transition(new_state): ctx.transition, _save_lifecycle_record
RunTransition(a, new_state, next_pc) ==
    LET c == transition(ctx[a], new_state)
    IN  /\ ctx' = [ctx EXCEPT ![a] = c]
        /\ lifecycle' = [lifecycle EXCEPT ![a] = LifecycleRecordOf(c, a)]
        /\ run_hist' = [run_hist EXCEPT ![a] = Append(@, new_state)]
        /\ run' = [run EXCEPT ![a] = next_pc]

\* finally: self._semaphore.release(); persist_state() does not suspend, so the
\* task ends in the step that releases
RunRelease ==
    sem' = sem + 1

\* Mutant: the failed run keeps its permit.
RunExcept_unreleased(a, msg) ==
    LET c == transition([ctx[a] EXCEPT !.error = msg], "errored")
    IN  /\ ctx' = [ctx EXCEPT ![a] = c]
        /\ lifecycle' = [lifecycle EXCEPT ![a] = LifecycleRecordOf(c, a)]
        /\ run_hist' = [run_hist EXCEPT ![a] = Append(@, "errored")]
        /\ run' = [run EXCEPT ![a] = "done"]
        /\ UNCHANGED sem

\* except Exception as exc: ctx.error = str(exc); transition(ERRORED); finally
RunExcept(a, msg) ==
    LET c == transition([ctx[a] EXCEPT !.error = msg], "errored")
    IN  /\ ctx' = [ctx EXCEPT ![a] = c]
        /\ lifecycle' = [lifecycle EXCEPT ![a] = LifecycleRecordOf(c, a)]
        /\ run_hist' = [run_hist EXCEPT ![a] = Append(@, "errored")]
        /\ run' = [run EXCEPT ![a] = "done"]
        /\ RunRelease

\* Mutant: the run of an agent that is no longer in memory keeps its permit.
RunBegin_keeping(a) ==
    /\ run[a] = "begin"
    /\ IF a \notin active_agents
       THEN /\ run' = [run EXCEPT ![a] = "done"]
            /\ UNCHANGED <<sem, ctx, lifecycle, run_hist>>
       ELSE /\ RunTransition(a, "spawning", "spawning")
            /\ UNCHANGED sem
    /\ UNCHANGED <<queue, clock, fixed, read_result, cleaned, cleanup_call, crashes, phase, active_agents, to_enqueue, worker_holding, acc, rej,
                   merge_todo, db_file, overlay, kv_submission, stable, next_agent, histvars>>

\* ctx = self.active_agents.get(agent_id); if ctx is None: return; transition(SPAWNING)
RunBegin(a) ==
    /\ run[a] = "begin"
    /\ IF a \notin active_agents
       THEN /\ run' = [run EXCEPT ![a] = "done"]
            /\ RunRelease
            /\ UNCHANGED <<ctx, lifecycle, run_hist>>
       ELSE /\ RunTransition(a, "spawning", "spawning")
            /\ UNCHANGED sem
    /\ UNCHANGED <<queue, clock, fixed, read_result, cleaned, cleanup_call, crashes, phase, active_agents, to_enqueue, worker_holding, acc, rej,
                   merge_todo, db_file, overlay, kv_submission, stable, next_agent, histvars>>

\* Mutant: the run goes from spawning straight to executing.
RunSpawned_skipping(a) ==
    /\ run[a] = "spawning"
    /\ RunTransition(a, "executing", "executing")
    /\ UNCHANGED <<queue, clock, fixed, read_result, cleaned, cleanup_call, crashes, phase, active_agents, to_enqueue, worker_holding, sem, acc, rej,
                   merge_todo, db_file, overlay, kv_submission, stable, next_agent, histvars>>

\* transition(GENERATING); the task then waits in llm.generate
RunSpawned(a) ==
    /\ run[a] = "spawning"
    /\ RunTransition(a, "generating", "generating")
    /\ UNCHANGED <<queue, clock, fixed, read_result, cleaned, cleanup_call, crashes, phase, active_agents, to_enqueue, worker_holding, sem, acc, rej,
                   merge_todo, db_file, overlay, kv_submission, stable, next_agent, histvars>>

\* llm.generate returns or raises; validate_code; transition(EXECUTING)
RunGenerated(a) ==
    /\ run[a] = "generating"
    /\ \E outcome \in {"ok", "generation failed", "validation failed"} :
        IF outcome = "ok"
        THEN /\ RunTransition(a, "executing", "executing")
             /\ UNCHANGED sem
        ELSE RunExcept(a, outcome)
    /\ UNCHANGED <<queue, clock, fixed, read_result, cleaned, cleanup_call, crashes, phase, active_agents, to_enqueue, worker_holding, acc, rej,
                   merge_todo, db_file, overlay, kv_submission, stable, next_agent, histvars>>

\* the script calls write_file(path, content): agent overlay only.  The call
\* needs the open overlay handle (trash_agent closes it).
RunScriptWrite(a, path) ==
    /\ run[a] = "executing"
    /\ a \in active_agents
    /\ write_file(a, path, AgentText(a))
    /\ Interfere({a}, "write")
    /\ UNCHANGED <<queue, clock, frozen, memvars, lifecycle, db_file, kv_submission,
                   next_agent, acc_hist, acc_pre>>

\* the script calls submit_result: KVRepository.save_submission stores the tagged form
RunScriptSubmit(a) ==
    /\ run[a] = "executing"
    /\ a \in active_agents
    /\ kv_submission' = [kv_submission EXCEPT ![a] = "tagged"]
    /\ UNCHANGED <<queue, clock, frozen, memvars, lifecycle, db_file, overlay, stable,
                   next_agent, histvars>>

\* executor.execute returns; failed result raises; transition(SUBMITTING)
RunExecuted(a) ==
    /\ run[a] = "executing"
    /\ \E outcome \in {"ok", "execution failed"} :
        IF outcome = "ok"
        THEN /\ RunTransition(a, "submitting", "submitting")
             /\ UNCHANGED sem
        ELSE RunExcept(a, outcome)
    /\ UNCHANGED <<queue, clock, fixed, read_result, cleaned, cleanup_call, crashes, phase, active_agents, to_enqueue, worker_holding, acc, rej,
                   merge_todo, db_file, overlay, kv_submission, stable, next_agent, histvars>>

\* agent_fs.kv.get("submission") (raises on a closed handle); json.loads;
\* materialize; transition(REVIEWING); finally
RunSubmit(a) ==
    /\ run[a] = "submitting"
    /\ IF a \notin active_agents
       THEN RunExcept(a, "overlay closed")
       ELSE LET c == transition([ctx[a] EXCEPT !.submission = kv_submission[a]], "reviewing")
            IN  /\ ctx' = [ctx EXCEPT ![a] = c]
                /\ lifecycle' = [lifecycle EXCEPT ![a] = LifecycleRecordOf(c, a)]
                /\ run_hist' = [run_hist EXCEPT ![a] = Append(@, "reviewing")]
                /\ run' = [run EXCEPT ![a] = "done"]
                /\ RunRelease
    /\ UNCHANGED <<queue, clock, fixed, read_result, cleaned, cleanup_call, crashes, phase, active_agents, to_enqueue, worker_holding, acc, rej,
                   merge_todo, db_file, overlay, kv_submission, stable, next_agent, histvars>>

\* ------------------------------------------------------------------------
\* trash_agent, accept_agent, reject_agent
\* ------------------------------------------------------------------------
\* Mutant: a call for an agent that is not in memory removes the trashed file.
trash_agent_again(a) ==
    IF a \notin active_agents
    THEN /\ db_file' = [db_file EXCEPT ![a] = "none"]
         /\ UNCHANGED <<lifecycle, active_agents>>
    ELSE /\ db_file' = [db_file EXCEPT ![a] = IF @ = "active" THEN "bin" ELSE @]
         /\ lifecycle' = [lifecycle EXCEPT ![a] = [LifecycleRecordOf(ctx[a], a) EXCEPT !.db_path = "bin"]]
         /\ active_agents' = active_agents \ {a}

\* trash_agent(agent_id): no-op when the agent is not in memory; else close the
\* overlay, move <id>.db to bin-<id>.db, save the record with the bin path,
\* drop the context
trash_agent(a) ==
    IF a \notin active_agents
    THEN UNCHANGED <<db_file, lifecycle, active_agents>>
    ELSE /\ db_file' = [db_file EXCEPT ![a] = IF @ = "active" THEN "bin" ELSE @]
         /\ lifecycle' = [lifecycle EXCEPT ![a] = [LifecycleRecordOf(ctx[a], a) EXCEPT !.db_path = "bin"]]
         /\ active_agents' = active_agents \ {a}

\* history bookkeeping of a step of the accept of agent a that ends the call
AcceptEnds(a) ==
    /\ acc_pre' = [acc_pre EXCEPT ![a] = EmptyFs]
    /\ acc_clean' = [b \in Agents |->
                       IF b = a THEN "quiet"
                       ELSE IF acc[b] # "idle" THEN "dirty" ELSE acc_clean[b]]

\* ctx = self._get_agent(agent_id) (KeyError when not in memory);
\* ctx.transition(ACCEPTED); _save_lifecycle_record(ctx)
AcceptBegin(a) ==
    /\ phase = "up"
    /\ acc[a] = "idle"
    /\ a \in active_agents
    /\ LET c == transition(ctx[a], "accepted")
       IN  /\ ctx' = [ctx EXCEPT ![a] = c]
           /\ lifecycle' = [lifecycle EXCEPT ![a] = LifecycleRecordOf(c, a)]
    /\ acc' = [acc EXCEPT ![a] = "merge"]
    /\ acc_hist' = [acc_hist EXCEPT ![a] = "called"]
    /\ acc_pre' = [acc_pre EXCEPT ![a] = stable]
    /\ acc_clean' = [b \in Agents |->
                       IF b = a THEN "quiet"
                       ELSE IF acc[b] # "idle" THEN "dirty" ELSE acc_clean[b]]
    /\ UNCHANGED <<queue, clock, frozen, phase, active_agents, to_enqueue, worker_holding, sem, run,
                   rej, merge_todo, db_file, overlay, kv_submission, stable, next_agent>>

\* _merge_overlay_to_stable(source, target, "/"): entries = source.fs.readdir("/");
\* reading a closed overlay raises and accept_agent ends with the error
AcceptMergeStart(a) ==
    /\ acc[a] = "merge"
    /\ IF a \notin active_agents
       THEN /\ acc' = [acc EXCEPT ![a] = "idle"]
            /\ AcceptEnds(a)
            /\ UNCHANGED merge_todo
       ELSE /\ acc' = [acc EXCEPT ![a] = "copy"]
            /\ merge_todo' = [merge_todo EXCEPT ![a] = readdir(overlay[a], Root)]
            /\ Interfere(Agents \ {a}, "cmd")
            /\ UNCHANGED acc_pre
    /\ UNCHANGED <<queue, clock, frozen, phase, active_agents, ctx, to_enqueue, worker_holding, sem, run,
                   rej, diskvars, acc_hist>>

\* one iteration of the merge loop: recurse into a directory entry, or
\* read the file through the overlay and write it to stable at the same path
AcceptCopy(a) ==
    /\ acc[a] = "copy"
    /\ merge_todo[a] # <<>>
    /\ IF a \notin active_agents
       THEN /\ acc' = [acc EXCEPT ![a] = "idle"]
            /\ merge_todo' = [merge_todo EXCEPT ![a] = <<>>]
            /\ AcceptEnds(a)
            /\ UNCHANGED stable
       ELSE LET r == merge_entry(merge_todo[a], overlay[a], stable)
            IN  /\ merge_todo' = [merge_todo EXCEPT ![a] = r[1]]
                /\ stable' = r[2]
                /\ Interfere(Agents \ {a}, "cmd")
                /\ UNCHANGED <<acc, acc_pre>>
    /\ UNCHANGED <<queue, clock, frozen, phase, active_agents, ctx, to_enqueue, worker_holding, sem, run,
                   rej, lifecycle, db_file, overlay, kv_submission, next_agent, acc_hist>>

\* source.fs.read_file or target.fs.write_file raises for the file entry at
\* hand: nothing catches the error, the merge and accept_agent end with it
\* and trash_agent is not reached
AcceptCopyFails(a) ==
    /\ acc[a] = "copy"
    /\ merge_todo[a] # <<>>
    /\ Head(merge_todo[a]) \in Files
    /\ a \in active_agents
    /\ acc' = [acc EXCEPT ![a] = "idle"]
    /\ merge_todo' = [merge_todo EXCEPT ![a] = <<>>]
    /\ acc_hist' = [acc_hist EXCEPT ![a] = "raised"]
    /\ AcceptEnds(a)
    /\ UNCHANGED <<queue, clock, frozen, phase, active_agents, ctx, to_enqueue, worker_holding, sem, run,
                   rej, diskvars>>

\* the merge is over: trash_agent(agent_id); persist_state(); accept_agent returns
AcceptTrash(a) ==
    /\ acc[a] = "copy"
    /\ merge_todo[a] = <<>>
    /\ trash_agent(a)
    /\ acc' = [acc EXCEPT ![a] = "idle"]
    /\ acc_hist' = [acc_hist EXCEPT ![a] = "returned"]
    /\ AcceptEnds(a)
    /\ UNCHANGED <<queue, clock, frozen, phase, ctx, to_enqueue, worker_holding, sem, run,
                   rej, merge_todo, overlay, kv_submission, stable, next_agent>>

\* ctx = self._get_agent(agent_id); ctx.transition(REJECTED); _save_lifecycle_record(ctx)
RejectBegin(a) ==
    /\ phase = "up"
    /\ rej[a] = "idle"
    /\ a \in active_agents
    /\ LET c == transition(ctx[a], "rejected")
       IN  /\ ctx' = [ctx EXCEPT ![a] = c]
           /\ lifecycle' = [lifecycle EXCEPT ![a] = LifecycleRecordOf(c, a)]
    /\ rej' = [rej EXCEPT ![a] = "trash"]
    /\ Interfere(Agents, "cmd")
    /\ UNCHANGED <<queue, clock, frozen, phase, active_agents, to_enqueue, worker_holding, sem, run,
                   acc, merge_todo, db_file, overlay, kv_submission, stable, next_agent, acc_hist, acc_pre>>

\* Mutant: reject merges the overlay into stable before trashing the agent.
RejectTrash_merging(a) ==
    /\ rej[a] = "trash"
    /\ trash_agent(a)
    /\ rej' = [rej EXCEPT ![a] = "idle"]
    /\ stable' = merge_overlay_to_stable(readdir(overlay[a], Root), overlay[a], stable)
    /\ Interfere(Agents, "cmd")
    /\ UNCHANGED <<queue, clock, frozen, phase, ctx, to_enqueue, worker_holding, sem, run,
                   acc, merge_todo, overlay, kv_submission, next_agent, acc_hist, acc_pre>>

\* trash_agent(agent_id); persist_state(); reject_agent returns
RejectTrash(a) ==
    /\ rej[a] = "trash"
    /\ trash_agent(a)
    /\ rej' = [rej EXCEPT ![a] = "idle"]
    /\ Interfere(Agents, "cmd")
    /\ UNCHANGED <<queue, clock, frozen, phase, ctx, to_enqueue, worker_holding, sem, run,
                   acc, merge_todo, overlay, kv_submission, stable, next_agent, acc_hist, acc_pre>>

\* ------------------------------------------------------------------------
\* cleanup_completed_agents / LifecycleStore.cleanup_old
\* ------------------------------------------------------------------------
TerminalStates == {"accepted", "rejected", "errored"}

\* Mutant: a record exactly max_age old is deleted too.
CleanupSet_inclusive(max_age) ==
    LET cutoff == clock - max_age
    IN  {a \in Agents : /\ lifecycle[a].state \in TerminalStates
                        /\ ~ (lifecycle[a].state_changed_at > cutoff)}

\* the agents whose record cleanup_old deletes for max_age_seconds = max_age
CleanupSet(max_age) ==
    LET cutoff == clock - max_age
    IN  {a \in Agents : /\ lifecycle[a].state \in TerminalStates
                        /\ ~ (lifecycle[a].state_changed_at >= cutoff)}

\* cleanup_old(max_age, agentfs_dir): delete the selected records, unlink the
\* overlay file each names when it exists, return the number of records deleted
cleanup_old(max_age) ==
    /\ phase = "up"
    /\ LET gone == CleanupSet(max_age)
       IN  /\ lifecycle' = [a \in Agents |-> IF a \in gone THEN NoRecord ELSE lifecycle[a]]
           /\ db_file' = [a \in Agents |->
                            IF a \in gone /\ db_file[a] = lifecycle[a].db_path
                            THEN "none" ELSE db_file[a]]
           /\ cleaned' = Cardinality(gone)
    /\ Interfere(Agents, "cmd")
    /\ UNCHANGED <<queue, clock, fixed, read_result, crashes, run_hist, memvars, overlay,
                   kv_submission, stable, next_agent, acc_hist, acc_pre>>

CleanupOld ==
    /\ \E max_age \in 0..MaxClock : cleanup_old(max_age)
    /\ UNCHANGED cleanup_call

\* ------------------------------------------------------------------------
\* FileWatcher.handle_change: mirror a host file into stable, or delete it
\* ------------------------------------------------------------------------
WatcherWrite(path, bytes) ==
    /\ phase = "up"
    /\ stable' = fs_write_file(stable, path, bytes)
    /\ Interfere(Agents, "write")
    /\ UNCHANGED <<queue, clock, frozen, memvars, lifecycle, db_file, overlay, kv_submission,
                   next_agent, acc_hist, acc_pre>>

WatcherDelete(path) ==
    /\ phase = "up"
    /\ stable[path] # NoFile
    /\ stable' = fs_write_file(stable, path, NoFile)
    /\ Interfere(Agents, "write")
    /\ UNCHANGED <<queue, clock, frozen, memvars, lifecycle, db_file, overlay, kv_submission,
                   next_agent, acc_hist, acc_pre>>

\* ------------------------------------------------------------------------
\* Time in the orchestrator specifications: a retention period passes once
\* every agent has been spawned and no call, run or dispatch is in flight
\* ------------------------------------------------------------------------
Idle ==
    /\ to_enqueue = {}
    /\ worker_holding = NoAgent
    /\ queue = <<>>
    /\ \A a \in Agents : run[a] \in {"none", "done"} /\ acc[a] = "idle" /\ rej[a] = "idle"

Elapse ==
    /\ next_agent > MaxStableAgents
    /\ Idle
    /\ Tick

\* ------------------------------------------------------------------------
\* Process death and initialize() / recover_from_lifecycle_store
\* ------------------------------------------------------------------------
\* the process dies: everything in memory is lost, the databases stay
ProcessDeath ==
    /\ phase = "up"
    /\ phase' = "down"
    /\ active_agents' = {}
    /\ ctx' = [a \in Agents |-> NoCtx]
    /\ to_enqueue' = {}
    /\ worker_holding' = NoAgent
    /\ sem' = max_concurrent_agents
    /\ run' = [a \in Agents |-> "none"]
    /\ acc' = [a \in Agents |-> "idle"]
    /\ rej' = [a \in Agents |-> "idle"]
    /\ merge_todo' = [a \in Agents |-> <<>>]
    /\ queue' = <<>>
    /\ acc_pre' = [a \in Agents |-> EmptyFs]
    /\ acc_clean' = [a \in Agents |-> "quiet"]
    /\ UNCHANGED <<clock, fixed, read_result, cleaned, cleanup_call, run_hist, diskvars, acc_hist>>

Crash ==
    /\ ProcessDeath
    /\ UNCHANGED crashes

\* a process death while some agent is still queued, at most MaxCrashes times
CrashCounted ==
    /\ crashes < MaxCrashes
    /\ \E a \in Agents : lifecycle[a].state = "queued"
    /\ ProcessDeath
    /\ crashes' = crashes + 1

\* the overlay file a record names is gone when the process starts again
\* (db_path.exists() is false): it was removed while the process was down
OverlayLost(a) ==
    /\ phase = "down"
    /\ db_file[a] # "none"
    /\ db_file' = [db_file EXCEPT ![a] = "none"]
    /\ UNCHANGED <<queue, clock, frozen, memvars, lifecycle, overlay, kv_submission, stable,
                   next_agent, histvars>>

\* Mutant: recovery puts a queued agent in memory and does not enqueue it.
RecoverRecord_unqueued(st, a) ==
    LET rec == st.lifecycle[a]
    IN  IF rec.state \in {"none", "accepted", "rejected"}
        THEN st
        ELSE IF db_file[a] # rec.db_path
        THEN [st EXCEPT !.lifecycle[a] = [rec EXCEPT !.state = "errored",
                                                    !.error = "Agent DB missing after restart",
                                                    !.state_changed_at = clock]]
        ELSE [st EXCEPT !.ctx[a] = ContextOf(rec),
                        !.active = @ \cup {a}]

\* Mutant: recovery does not look for the overlay file.
RecoverRecord_unchecked(st, a) ==
    LET rec == st.lifecycle[a]
    IN  IF rec.state \in {"none", "accepted", "rejected"}
        THEN st
        ELSE [st EXCEPT !.ctx[a] = ContextOf(rec),
                        !.active = @ \cup {a},
                        !.queue = IF rec.state = "queued"
                                  THEN heappush(@, QueuedTask(a, rec.priority, clock))
                                  ELSE @]

\* Mutant: recovery enqueues every agent it puts in memory.
RecoverRecord_requeueing(st, a) ==
    LET rec == st.lifecycle[a]
    IN  IF rec.state \in {"none", "accepted", "rejected"}
        THEN st
        ELSE IF db_file[a] # rec.db_path
        THEN [st EXCEPT !.lifecycle[a] = [rec EXCEPT !.state = "errored",
                                                    !.error = "Agent DB missing after restart",
                                                    !.state_changed_at = clock]]
        ELSE [st EXCEPT !.ctx[a] = ContextOf(rec),
                        !.active = @ \cup {a},
                        !.queue = heappush(@, QueuedTask(a, rec.priority, clock))]

\* one iteration of the recovery loop on the state st = [lifecycle, ctx, active, queue]
RecoverRecord(st, a) ==
    LET rec == st.lifecycle[a]
    IN  IF rec.state \in {"none", "accepted", "rejected"}
        THEN st
        ELSE IF db_file[a] # rec.db_path
        THEN [st EXCEPT !.lifecycle[a] = [rec EXCEPT !.state = "errored",
                                                    !.error = "Agent DB missing after restart",
                                                    !.state_changed_at = clock]]
        ELSE [st EXCEPT !.ctx[a] = ContextOf(rec),
                        !.active = @ \cup {a},
                        !.queue = IF rec.state = "queued"
                                  THEN heappush(@, QueuedTask(a, rec.priority, clock))
                                  ELSE @]

RECURSIVE recover_from_lifecycle_store(_, _)
recover_from_lifecycle_store(st, a) ==
    IF a \notin Agents THEN st
    ELSE recover_from_lifecycle_store(RecoverRecord(st, a), a + 1)

\* initialize(): open the stores, recover, start the worker loop
Initialize ==
    /\ phase = "down"
    /\ phase' = "up"
    /\ LET st == recover_from_lifecycle_store(
                    [lifecycle |-> lifecycle, ctx |-> ctx, active |-> {}, queue |-> <<>>], 1)
       IN  /\ lifecycle' = st.lifecycle
           /\ ctx' = st.ctx
           /\ active_agents' = st.active
           /\ queue' = st.queue
    /\ UNCHANGED <<clock, frozen, to_enqueue, worker_holding, sem, run, acc, rej, merge_todo,
                   db_file, overlay, kv_submission, stable, next_agent, histvars>>

\* ------------------------------------------------------------------------
\* Spec: the orchestrator with MaxAgents agents; scripts write nothing, so
\* every merge finds an empty overlay
\* ------------------------------------------------------------------------
Init ==
    /\ queue = <<>>
    /\ active_count = 0
    /\ completed_count = 0
    /\ max_concurrent = DefaultQueueMaxConcurrent
    /\ clock = 0
    /\ next_task = 1
    /\ dq_result = <<>>
    /\ max_concurrent_agents \in 1..MaxPermits
    /\ phase = "down"
    /\ OrchInit

SpecSpawn ==
    /\ next_agent <= MaxAgents
    /\ SpawnBegin(NORMAL)

Next ==
    \/ Initialize
    \/ Crash
    \/ SpecSpawn
    \/ \E a \in Agents : SpawnEnqueue(a)
    \/ WorkerDequeue
    \/ WorkerDispatch
    \/ \E a \in Agents : RunBegin(a)
    \/ \E a \in Agents : RunSpawned(a)
    \/ \E a \in Agents : RunGenerated(a)
    \/ \E a \in Agents : RunExecuted(a)
    \/ \E a \in Agents : RunSubmit(a)
    \/ \E a \in Agents : AcceptBegin(a)
    \/ \E a \in Agents : AcceptMergeStart(a)
    \/ \E a \in Agents : AcceptTrash(a)
    \/ \E a \in Agents : RejectBegin(a)
    \/ \E a \in Agents : RejectTrash(a)

Spec == Init /\ [][Next]_vars

\* ------------------------------------------------------------------------
\* StableSpec: MaxStableAgents agents with scripts that write files and
\* submit, and the watcher.  With a single agent a permit is always free when
\* the worker loop dequeues, so the loop never waits in acquire.
\* ------------------------------------------------------------------------
StableSpawn ==
    /\ next_agent <= MaxStableAgents
    /\ SpawnBegin(NORMAL)

StableNext ==
    \/ Initialize
    \/ Crash
    \/ Elapse
    \/ StableSpawn
    \/ \E a \in Agents : SpawnEnqueue(a)
    \/ WorkerDequeue
    \/ \E a \in Agents : RunBegin(a)
    \/ \E a \in Agents : RunSpawned(a)
    \/ \E a \in Agents : RunGenerated(a)
    \/ \E a \in Agents, path \in Files : RunScriptWrite(a, path)
    \/ \E a \in Agents : RunScriptSubmit(a)
    \/ \E a \in Agents : RunExecuted(a)
    \/ \E a \in Agents : RunSubmit(a)
    \/ \E a \in Agents : AcceptBegin(a)
    \/ \E a \in Agents : AcceptMergeStart(a)
    \/ \E a \in Agents : AcceptCopy(a)
    \/ \E a \in Agents : AcceptTrash(a)
    \/ \E a \in Agents : RejectBegin(a)
    \/ \E a \in Agents : RejectTrash(a)
    \/ CleanupOld
    \/ \E path \in Files : WatcherWrite(path, HostText)
    \/ \E path \in Files : WatcherDelete(path)

StableSpec == Init /\ [][StableNext]_vars

\* ------------------------------------------------------------------------
\* FsSpec: the external functions of MaxAgents agents over open overlays and
\* stable; accepts are whole merges, the watcher mirrors text and binary files
\* ------------------------------------------------------------------------
FsInit ==
    /\ queue = <<>>
    /\ active_count = 0
    /\ completed_count = 0
    /\ max_concurrent = DefaultQueueMaxConcurrent
    /\ clock = 0
    /\ next_task = 1
    /\ dq_result = <<>>
    /\ max_concurrent_agents = 1
    /\ phase = "up"
    /\ OrchInit

ExtWriteFile(a, path) ==
    /\ write_file(a, path, AgentText(a))
    /\ UNCHANGED <<queue, clock, frozen, memvars, lifecycle, db_file, kv_submission,
                   next_agent, histvars>>

ExtReadFile(a, path) ==
    /\ read_result' = <<a, path, read_file(a, path)>>
    /\ UNCHANGED <<queue, clock, fixed, cleaned, cleanup_call, crashes, run_hist, memvars, diskvars, histvars>>

\* accept_agent's merge of agent a, run to its end
MergeOverlay(a) ==
    /\ stable' = merge_overlay_to_stable(readdir(overlay[a], Root), overlay[a], stable)
    /\ acc_hist' = [acc_hist EXCEPT ![a] = "returned"]
    /\ UNCHANGED <<queue, clock, frozen, memvars, lifecycle, db_file, overlay, kv_submission,
                   next_agent, acc_pre, acc_clean>>

FsNext ==
    \/ \E a \in 1..MaxAgents, path \in Files : ExtWriteFile(a, path)
    \/ \E a \in 1..MaxAgents, path \in Files : ExtReadFile(a, path)
    \/ \E a \in 1..MaxAgents : MergeOverlay(a)
    \/ \E path \in Files, bytes \in {HostText, HostBinary} : WatcherWrite(path, bytes)
    \/ \E path \in Files : WatcherDelete(path)

FsSpec == FsInit /\ [][FsNext]_vars

\* ------------------------------------------------------------------------
\* DispatchSpec: MaxDispatchAgents agents of different priorities behind one
\* permit; no process death, no accept or reject
\* ------------------------------------------------------------------------
DispatchPriorities == {LOW, HIGH, URGENT}

DispatchSpawn ==
    \E p \in DispatchPriorities : SpawnBegin(p)

DispatchNext ==
    \/ Initialize
    \/ DispatchSpawn
    \/ \E a \in Agents : SpawnEnqueue(a)
    \/ WorkerDequeue
    \/ WorkerDispatch
    \/ \E a \in Agents : RunBegin(a)
    \/ \E a \in Agents : RunSpawned(a)
    \/ \E a \in Agents : RunGenerated(a)
    \/ \E a \in Agents : RunExecuted(a)
    \/ \E a \in Agents : RunSubmit(a)

DispatchSpec == Init /\ [][DispatchNext]_vars

\* ------------------------------------------------------------------------
\* RetentionSpec: MaxAgents agents that run, fail or are rejected while time
\* passes, and a client calling cleanup_old
\* ------------------------------------------------------------------------
MaxCleanupCalls == 2

RetentionSpawn ==
    /\ next_agent <= MaxAgents
    /\ SpawnBegin(NORMAL)

RetentionCleanup ==
    /\ cleanup_call[1] < MaxCleanupCalls
    /\ \E max_age \in 0..MaxClock :
        /\ cleanup_old(max_age)
        /\ cleanup_call' = <<cleanup_call[1] + 1, max_age>>

RetentionNext ==
    \/ Initialize
    \/ Crash
    \/ Tick
    \/ RetentionSpawn
    \/ \E a \in Agents : SpawnEnqueue(a)
    \/ WorkerDequeue
    \/ WorkerDispatch
    \/ \E a \in Agents : RunBegin(a)
    \/ \E a \in Agents : RunSpawned(a)
    \/ \E a \in Agents : RunGenerated(a)
    \/ \E a \in Agents : RunExecuted(a)
    \/ \E a \in Agents : RunSubmit(a)
    \/ \E a \in Agents : RejectBegin(a)
    \/ \E a \in Agents : RejectTrash(a)
    \/ RetentionCleanup

RetentionSpec == Init /\ [][RetentionNext]_vars

\* ------------------------------------------------------------------------
\* RecoverySpec: MaxAgents agents whose process dies and starts again, and
\* overlay files that are lost in between; no accept or reject
\* ------------------------------------------------------------------------
RecoverySpawn ==
    /\ next_agent <= MaxAgents
    /\ SpawnBegin(NORMAL)

RecoveryNext ==
    \/ Initialize
    \/ Crash
    \/ \E a \in Agents : OverlayLost(a)
    \/ RecoverySpawn
    \/ \E a \in Agents : SpawnEnqueue(a)
    \/ WorkerDequeue
    \/ WorkerDispatch
    \/ \E a \in Agents : RunBegin(a)
    \/ \E a \in Agents : RunSpawned(a)
    \/ \E a \in Agents : RunGenerated(a)
    \/ \E a \in Agents : RunExecuted(a)
    \/ \E a \in Agents : RunSubmit(a)

RecoverySpec == Init /\ [][RecoveryNext]_vars

\* ------------------------------------------------------------------------
\* LiveSpec: MaxAgents agents, failing runs, Reject, and at most MaxCrashes
\* process deaths, under fair scheduling: the event loop runs every task that
\* is ready, generation and the sandbox return, and a dead process is started
\* again
\* ------------------------------------------------------------------------
LiveSpawn ==
    /\ next_agent <= MaxAgents
    /\ SpawnBegin(NORMAL)

LiveNext ==
    \/ Initialize
    \/ CrashCounted
    \/ LiveSpawn
    \/ \E a \in Agents : SpawnEnqueue(a)
    \/ WorkerDequeue
    \/ WorkerDispatch
    \/ \E a \in Agents : RunBegin(a)
    \/ \E a \in Agents : RunSpawned(a)
    \/ \E a \in Agents : RunGenerated(a)
    \/ \E a \in Agents : RunExecuted(a)
    \/ \E a \in Agents : RunSubmit(a)
    \/ \E a \in Agents : RejectBegin(a)
    \/ \E a \in Agents : RejectTrash(a)

Fairness ==
    /\ WF_vars(Initialize)
    /\ WF_vars(WorkerDequeue)
    /\ WF_vars(WorkerDispatch)
    /\ \A a \in Agents :
        /\ WF_vars(SpawnEnqueue(a))
        /\ WF_vars(RunBegin(a))
        /\ WF_vars(RunSpawned(a))
        /\ WF_vars(RunGenerated(a))
        /\ WF_vars(RunExecuted(a))
        /\ WF_vars(RunSubmit(a))
        /\ WF_vars(RejectTrash(a))

LiveSpec == Init /\ [][LiveNext]_vars /\ Fairness

\* ------------------------------------------------------------------------
\* CommandSpec: parse_command_payload applied to every tag and payload of a
\* bounded set, then to the to_payload() of the command it produced
\* ------------------------------------------------------------------------
RawTags ==
    {<<"str", t>> : t \in {"queue", "spawn", "Spawn", "accept", "reject", "status",
                           "list_agents", "list-agents", "bogus"}}
        \cup {<<"enum", "queue">>}

Opt(values) == {<<>>} \cup {<<v>> : v \in values}

OutOfRange == URGENT + 5

Payloads ==
    [type : {<<>>},
     agent_id : Opt({"", "a1"}),
     task : Opt({"", "t"}),
     priority : Opt(TaskPriority \cup {OutOfRange}),
     metadata : Opt({"{}", "{k}", "[]"})]

noncmd == <<sigvars, adaptvars, report, runvars, subvars, queue, clock, active_count, completed_count, max_concurrent, next_task, dq_result,
            max_concurrent_agents, read_result, cleaned, cleanup_call, crashes, run_hist,
            memvars, diskvars, histvars>>

CmdInit ==
    /\ queue = <<>>
    /\ active_count = 0
    /\ completed_count = 0
    /\ max_concurrent = DefaultQueueMaxConcurrent
    /\ clock = 0
    /\ next_task = 1
    /\ dq_result = <<>>
    /\ max_concurrent_agents = 1
    /\ phase = "down"
    /\ CoreInit
    /\ SignalIdle
    /\ AdapterIdle
    /\ parse_in \in RawTags \X Payloads
    /\ parse_out = NoResult
    /\ reparse_out = NoResult

ParseCommand ==
    /\ parse_in # NoCall
    /\ parse_out = NoResult
    /\ parse_out' = parse_command_payload(parse_in[1], parse_in[2])
    /\ UNCHANGED <<parse_in, reparse_out, noncmd>>

\* parse_command(p["type"], p) with p = c.to_payload()
Reparse ==
    /\ parse_out.status = "ok"
    /\ reparse_out = NoResult
    /\ LET p == to_payload(parse_out.command) IN
       reparse_out' = parse_command_payload(<<"str", p.type[1]>>, p)
    /\ UNCHANGED <<parse_in, parse_out, noncmd>>

CmdNext == ParseCommand \/ Reparse

CommandSpec == CmdInit /\ [][CmdNext]_vars

\* ------------------------------------------------------------------------
\* SignalSpec: tools drop signal files, SignalHandler.watch polls them and
\* hands the commands to orchestrator.submit_command, which returns or raises
\* ------------------------------------------------------------------------
MaxSignals == 2

SignalContents ==
    {Garbage, Binary} \cup
        {Object(payload) :
            payload \in [type : Opt({"queue", "accept", "Accept"}),
                         agent_id : Opt({"a1"}),
                         task : Opt({"t"}),
                         priority : {<<>>},
                         metadata : {<<>>}]}

nonsig == <<cmdvars, adaptvars, report, runvars, subvars, queue, clock, active_count, completed_count, max_concurrent, next_task,
            dq_result, max_concurrent_agents, read_result, cleaned, cleanup_call, crashes,
            run_hist, memvars, diskvars, histvars>>

SigInit ==
    /\ queue = <<>>
    /\ active_count = 0
    /\ completed_count = 0
    /\ max_concurrent = DefaultQueueMaxConcurrent
    /\ clock = 0
    /\ next_task = 1
    /\ dq_result = <<>>
    /\ max_concurrent_agents = 1
    /\ phase = "up"
    /\ OrchInit

DropSignal ==
    /\ Cardinality(dropped) < MaxSignals
    /\ \E stem \in SignalStems \ dropped, content \in SignalContents :
          /\ signals_dir' = [signals_dir EXCEPT ![stem] = content]
          /\ dropped' = dropped \cup {stem}
    /\ UNCHANGED <<poller, poll_todo, handled, nonsig>>

_detect_signal_files == SelectSeq(FileOrder, LAMBDA stem : signals_dir[stem] # Absent)

\* watch wakes from its sleep and process_signals_once lists the directory
PollBegin ==
    /\ poller = "sleeping"
    /\ _detect_signal_files # <<>>
    /\ poll_todo' = _detect_signal_files
    /\ poller' = "polling"
    /\ UNCHANGED <<signals_dir, handled, dropped, nonsig>>

\* one round of the for loop without its finally clause taking effect on a
\* file that was not dispatched
handle_signal_file_keeping(submit_raises) ==
    LET stem == Head(poll_todo)
        parsed == _parse_signal_file(stem, signals_dir[stem])
        outcome == CASE parsed.status = "skipped" -> "skipped"
                     [] parsed.status # "ok" -> "parse_failed"
                     [] submit_raises -> "dispatch_failed"
                     [] OTHER -> "dispatched"
        propagates == outcome \in {"parse_failed", "dispatch_failed"}
    IN
    /\ handled' = Append(handled, [stem |-> stem, content |-> signals_dir[stem],
                                   command |-> parsed.command, outcome |-> outcome])
    /\ signals_dir' = IF outcome = "dispatched"
                      THEN [signals_dir EXCEPT ![stem] = Absent]
                      ELSE signals_dir
    /\ poll_todo' = IF propagates THEN <<>> ELSE Tail(poll_todo)
    /\ poller' = IF propagates THEN "dead"
                 ELSE IF Tail(poll_todo) = <<>> THEN "sleeping" ELSE "polling"

\* one round of the for loop of process_signals_once: parse, dispatch, and
\* unlink in the finally clause; an exception leaves the loop, and watch and
\* run with it
handle_signal_file(submit_raises) ==
    LET stem == Head(poll_todo)
        parsed == _parse_signal_file(stem, signals_dir[stem])
        outcome == CASE parsed.status = "skipped" -> "skipped"
                     [] parsed.status # "ok" -> "parse_failed"
                     [] submit_raises -> "dispatch_failed"
                     [] OTHER -> "dispatched"
        propagates == outcome \in {"parse_failed", "dispatch_failed"}
    IN
    /\ handled' = Append(handled, [stem |-> stem, content |-> signals_dir[stem],
                                   command |-> parsed.command, outcome |-> outcome])
    /\ signals_dir' = [signals_dir EXCEPT ![stem] = Absent]
    /\ poll_todo' = IF propagates THEN <<>> ELSE Tail(poll_todo)
    /\ poller' = IF propagates THEN "dead"
                 ELSE IF Tail(poll_todo) = <<>> THEN "sleeping" ELSE "polling"

HandleFile ==
    /\ poller = "polling"
    /\ poll_todo # <<>>
    /\ \E submit_raises \in BOOLEAN : handle_signal_file(submit_raises)
    /\ UNCHANGED <<dropped, nonsig>>

SigNext == DropSignal \/ PollBegin \/ HandleFile

SignalSpec == SigInit /\ [][SigNext]_vars

\* ------------------------------------------------------------------------
\* AdapterSpec: one operation with one argument goes through the CLI adapter
\* and, as a signal file, through the signal adapter
\* ------------------------------------------------------------------------
Operations == {"spawn", "queue", "accept", "reject"}
AdapterArgs == {"t", "u", "a1", "a2", ""}

nonadapt == <<cmdvars, sigvars, report, runvars, subvars, queue, clock, active_count, completed_count, max_concurrent,
              next_task, dq_result, max_concurrent_agents, read_result, cleaned, cleanup_call,
              crashes, run_hist, memvars, diskvars, histvars>>

\* the signal files that stand for an operation: named after it with the
\* argument in the payload, named after it with the agent id in the file name
\* only, or under another name with the operation in the payload's type
SignalFilesFor(op, arg) ==
    IF op \in {"spawn", "queue"}
    THEN {[stem |-> Stem(op, "x"), content |-> Object([EmptyPayload EXCEPT !.task = <<arg>>])],
          [stem |-> Stem("", "custom"),
           content |-> Object([EmptyPayload EXCEPT !.type = <<op>>, !.task = <<arg>>])]}
    ELSE {[stem |-> Stem(op, arg), content |-> Object([EmptyPayload EXCEPT !.agent_id = <<arg>>])],
          [stem |-> Stem(op, arg), content |-> Object(EmptyPayload)],
          [stem |-> Stem("", "custom"),
           content |-> Object([EmptyPayload EXCEPT !.type = <<op>>, !.agent_id = <<arg>>])]}

AdInit ==
    /\ queue = <<>>
    /\ active_count = 0
    /\ completed_count = 0
    /\ max_concurrent = DefaultQueueMaxConcurrent
    /\ clock = 0
    /\ next_task = 1
    /\ dq_result = <<>>
    /\ max_concurrent_agents = 1
    /\ phase = "down"
    /\ CoreInit
    /\ CommandIdle
    /\ SignalIdle
    /\ adapter_in \in Operations \X AdapterArgs
    /\ cli_out = NoResult
    /\ sig_file = NoFileYet
    /\ sig_out = NoResult

CliAdapter ==
    /\ adapter_in # NoCall
    /\ cli_out = NoResult
    /\ cli_out' = CASE adapter_in[1] = "spawn" -> _run_spawn(adapter_in[2])
                    [] adapter_in[1] = "queue" -> _run_queue(adapter_in[2])
                    [] adapter_in[1] = "accept" -> _run_accept(adapter_in[2])
                    [] adapter_in[1] = "reject" -> _run_reject(adapter_in[2])
    /\ UNCHANGED <<adapter_in, sig_file, sig_out, nonadapt>>

SignalAdapter ==
    /\ adapter_in # NoCall
    /\ sig_out = NoResult
    /\ \E file \in SignalFilesFor(adapter_in[1], adapter_in[2]) :
          /\ sig_file' = file
          /\ sig_out' = _parse_signal_file(file.stem, file.content)
    /\ UNCHANGED <<adapter_in, cli_out, nonadapt>>

AdNext == CliAdapter \/ SignalAdapter

AdapterSpec == AdInit /\ [][AdNext]_vars

\* ------------------------------------------------------------------------
\* ReportSpec: MaxAgents agents whose runs take each transition in two steps,
\* ctx.transition in memory and then the awaited save of the record, while
\* Status and ListAgents commands are answered at any point
\* ------------------------------------------------------------------------
nonreport == <<runvars, subvars, queue, clock, active_count, completed_count, max_concurrent, next_task, dq_result,
               max_concurrent_agents, cmdvars, sigvars, adaptvars, read_result, cleaned,
               cleanup_call, crashes, run_hist, memvars, diskvars, histvars>>

\* the states a run can announce when the phase at position pc ends
Announced(pc) ==
    CASE pc = "begin" -> {"spawning"}
      [] pc = "spawning" -> {"generating"}
      [] pc = "generating" -> {"executing", "errored"}
      [] pc = "executing" -> {"submitting", "errored"}
      [] pc = "submitting" -> {"reviewing"}
      [] OTHER -> {}

\* where the run is once the announced state is saved
AfterSave(state) == IF state \in {"reviewing", "errored"} THEN "done" ELSE state

\* Mutant: the phase that was announced begins without the save.
PhaseEnd_unsaved(a) ==
    /\ run[a] \in {"begin", "spawning", "generating", "executing", "submitting"}
    /\ a \in active_agents
    /\ \E new_state \in Announced(run[a]) :
          LET c0 == IF new_state = "errored" THEN [ctx[a] EXCEPT !.error = "failed"]
                    ELSE IF new_state = "reviewing"
                         THEN [ctx[a] EXCEPT !.submission = kv_submission[a]]
                         ELSE ctx[a]
          IN  /\ ctx' = [ctx EXCEPT ![a] = transition(c0, new_state)]
              /\ run' = [run EXCEPT ![a] = AfterSave(new_state)]
              /\ sem' = IF AfterSave(new_state) = "done" THEN sem + 1 ELSE sem
    /\ UNCHANGED <<queue, clock, frozen, phase, active_agents, to_enqueue, worker_holding,
                   acc, rej, merge_todo, diskvars, histvars>>

\* a phase of _run_agent ends (or raises) and the closure transition runs up
\* to its await: ctx.transition(new_state) has changed the in-memory state,
\* the record is not yet saved
PhaseEnd(a) ==
    /\ run[a] \in {"begin", "spawning", "generating", "executing", "submitting"}
    /\ a \in active_agents
    /\ \E new_state \in Announced(run[a]) :
          LET c0 == IF new_state = "errored" THEN [ctx[a] EXCEPT !.error = "failed"]
                    ELSE IF new_state = "reviewing"
                         THEN [ctx[a] EXCEPT !.submission = kv_submission[a]]
                         ELSE ctx[a]
          IN  ctx' = [ctx EXCEPT ![a] = transition(c0, new_state)]
    /\ run' = [run EXCEPT ![a] = "saving"]
    /\ UNCHANGED <<queue, clock, frozen, phase, active_agents, to_enqueue, worker_holding, sem,
                   acc, rej, merge_todo, diskvars, histvars>>

\* lifecycle.save returns: the record shows the announced state and the phase
\* it announces begins; after reviewing or errored the finally clause runs
PhaseSave(a) ==
    /\ run[a] = "saving"
    /\ lifecycle' = [lifecycle EXCEPT ![a] = LifecycleRecordOf(ctx[a], a)]
    /\ run_hist' = [run_hist EXCEPT ![a] = Append(@, ctx[a].state)]
    /\ run' = [run EXCEPT ![a] = AfterSave(ctx[a].state)]
    /\ sem' = IF AfterSave(ctx[a].state) = "done" THEN sem + 1 ELSE sem
    /\ UNCHANGED <<queue, clock, fixed, read_result, cleaned, cleanup_call, crashes, phase,
                   active_agents, ctx, to_enqueue, worker_holding, acc, rej, merge_todo,
                   db_file, overlay, kv_submission, stable, next_agent, histvars>>

\* _handle_status
Status(a) ==
    /\ phase = "up"
    /\ report' = [b \in Agents |-> IF b = a THEN StatusOf(a) ELSE "unasked"]
    /\ UNCHANGED nonreport

\* _handle_list_agents: the agents in memory, then the records of the others
ListAgents ==
    /\ phase = "up"
    /\ report' = [b \in Agents |-> IF StatusOf(b) = "none" THEN "unasked" ELSE StatusOf(b)]
    /\ UNCHANGED nonreport

ReportNext ==
    \/ Initialize
    \/ LiveSpawn
    \/ \E a \in Agents : SpawnEnqueue(a)
    \/ WorkerDequeue
    \/ WorkerDispatch
    \/ \E a \in Agents : PhaseEnd(a)
    \/ \E a \in Agents : PhaseSave(a)
    \/ \E a \in Agents : Status(a)
    \/ ListAgents

ReportSpec == Init /\ [][ReportNext]_vars

\* ------------------------------------------------------------------------
\* RunSpec: MaxAgents agents whose runs keep what the language model and the
\* sandbox returned; no Accept, Reject or process death
\* ------------------------------------------------------------------------
\* Mutant: the code is not validated before execution.
Generate_unvalidated(a) ==
    /\ run[a] = "generating"
    /\ \/ /\ RunExcept(a, "generation failed")
          /\ UNCHANGED runvars
       \/ \E code \in GeneratedCodes :
             /\ generated_code' = [generated_code EXCEPT ![a] = code]
             /\ RunTransition(a, "executing", "executing")
             /\ UNCHANGED <<sem, execution_result>>
    /\ UNCHANGED <<queue, clock, active_count, completed_count, max_concurrent, next_task, dq_result,
                   max_concurrent_agents, cmdvars, sigvars, adaptvars, report, subvars,
                   read_result, cleaned, cleanup_call, crashes, phase, active_agents, to_enqueue,
                   worker_holding, acc, rej, merge_todo, db_file, overlay, kv_submission, stable,
                   next_agent, histvars>>

\* llm.generate raises, or returns code that is kept in ctx.generated_code;
\* validate_code; RuntimeError when it is not valid, else transition(EXECUTING)
Generate(a) ==
    /\ run[a] = "generating"
    /\ \/ /\ RunExcept(a, "generation failed")
          /\ UNCHANGED runvars
       \/ \E code \in GeneratedCodes :
             /\ generated_code' = [generated_code EXCEPT ![a] = code]
             /\ IF validate_code(code)
                THEN /\ RunTransition(a, "executing", "executing")
                     /\ UNCHANGED sem
                ELSE RunExcept(a, "validation failed")
             /\ UNCHANGED execution_result
    /\ UNCHANGED <<queue, clock, active_count, completed_count, max_concurrent, next_task, dq_result,
                   max_concurrent_agents, cmdvars, sigvars, adaptvars, report, subvars,
                   read_result, cleaned, cleanup_call, crashes, phase, active_agents, to_enqueue,
                   worker_holding, acc, rej, merge_todo, db_file, overlay, kv_submission, stable,
                   next_agent, histvars>>

\* executor.execute returns a result that is kept in ctx.execution_result;
\* RuntimeError when it failed, else transition(SUBMITTING)
Execute(a) ==
    /\ run[a] = "executing"
    /\ \E result \in ExecutionResults :
          /\ execution_result' = [execution_result EXCEPT ![a] = result]
          /\ IF failed(result)
             THEN RunExcept(a, "execution failed")
             ELSE /\ RunTransition(a, "submitting", "submitting")
                  /\ UNCHANGED sem
    /\ UNCHANGED <<queue, clock, active_count, completed_count, max_concurrent, next_task, dq_result,
                   max_concurrent_agents, cmdvars, sigvars, adaptvars, report, subvars, generated_code,
                   read_result, cleaned, cleanup_call, crashes, phase, active_agents, to_enqueue,
                   worker_holding, acc, rej, merge_todo, db_file, overlay, kv_submission, stable,
                   next_agent, histvars>>

RunNext ==
    \/ Initialize
    \/ LiveSpawn
    \/ \E a \in Agents : SpawnEnqueue(a)
    \/ WorkerDequeue
    \/ WorkerDispatch
    \/ \E a \in Agents : RunBegin(a)
    \/ \E a \in Agents : RunSpawned(a)
    \/ \E a \in Agents : Generate(a)
    \/ \E a \in Agents : Execute(a)
    \/ \E a \in Agents : RunSubmit(a)

RunSpec == Init /\ [][RunNext]_vars

\* ------------------------------------------------------------------------
\* MergeSpec: MaxAgents agents whose scripts write files, run to reviewing
\* and are accepted by clients that accept only agents in reviewing
\* ------------------------------------------------------------------------
MergeSpawn ==
    /\ next_agent <= MaxAgents
    /\ SpawnBegin(NORMAL)

\* Accept(agent_id) sent for an agent in reviewing
MergeAccept(a) ==
    /\ a \in active_agents
    /\ ctx[a].state = "reviewing"
    /\ AcceptBegin(a)

MergeNext ==
    \/ Initialize
    \/ MergeSpawn
    \/ \E a \in Agents : SpawnEnqueue(a)
    \/ WorkerDequeue
    \/ WorkerDispatch
    \/ \E a \in Agents : RunBegin(a)
    \/ \E a \in Agents : RunSpawned(a)
    \/ \E a \in Agents : RunGenerated(a)
    \/ \E a \in Agents, path \in Files : RunScriptWrite(a, path)
    \/ \E a \in Agents : RunExecuted(a)
    \/ \E a \in Agents : RunSubmit(a)
    \/ \E a \in Agents : MergeAccept(a)
    \/ \E a \in Agents : AcceptMergeStart(a)
    \/ \E a \in Agents : AcceptCopy(a)
    \/ \E a \in Agents : AcceptCopyFails(a)
    \/ \E a \in Agents : AcceptTrash(a)

MergeSpec == Init /\ [][MergeNext]_vars

\* ------------------------------------------------------------------------
\* SubmissionSpec: the "submission" key of one agent's overlay KV, written by
\* the script's submit_result or by a legacy writer, read by the runner and
\* by load_submission
\* ------------------------------------------------------------------------
nonsub == <<cmdvars, sigvars, adaptvars, report, runvars, queue, clock, active_count, completed_count,
            max_concurrent, next_task, dq_result, max_concurrent_agents, read_result, cleaned,
            cleanup_call, crashes, run_hist, memvars, diskvars, histvars>>

\* the script calls submit_result(summary, changed_files)
SubmitResult(a, payload) ==
    /\ sub_script' = <<payload>>
    /\ sub_kv' = <<save_submission(a, payload)>>
    /\ UNCHANGED <<sub_runner, sub_loaded, nonsub>>

\* a writer of the earlier format stores the raw submission JSON
LegacySubmit(payload) ==
    /\ sub_script' = <<payload>>
    /\ sub_kv' = <<payload>>
    /\ UNCHANGED <<sub_runner, sub_loaded, nonsub>>

\* _run_agent, submitting phase
RunnerRead ==
    /\ sub_runner' = runner_submission(sub_kv, sub_runner)
    /\ UNCHANGED <<sub_script, sub_kv, sub_loaded, nonsub>>

\* KVRepository.load_submission(agent_id)
LoadSubmission ==
    /\ sub_loaded' = load_submission(sub_kv)
    /\ UNCHANGED <<sub_script, sub_kv, sub_runner, nonsub>>

SubNext ==
    \/ \E a \in 1..MaxAgents, payload \in SubmissionPayloads : SubmitResult(a, payload)
    \/ \E payload \in SubmissionPayloads : LegacySubmit(payload)
    \/ RunnerRead
    \/ LoadSubmission

SubmissionSpec == Init /\ [][SubNext]_vars

\* ------------------------------------------------------------------------
\* Worker pool and lifecycle claims (Spec, StableSpec)
\* ------------------------------------------------------------------------
\* C1: at every moment the number of agents whose lifecycle run was started
\* by the worker loop and has not finished is at most max_concurrent_agents,
\* and while every permit is taken an agent whose run has not been started
\* is not started and does not leave queued for spawning.
C1_ConcurrencyGate ==
    /\ [](Cardinality({a \in Agents : run[a] \notin {"none", "done"}}) <= max_concurrent_agents)
    /\ [][\A a \in Agents :
             (run[a] = "none" /\ sem = 0) =>
                 /\ run'[a] = "none"
                 /\ ctx[a].state = "queued" => ctx'[a].state # "spawning"]_vars

\* Witness C1: every permit is taken by a running lifecycle while another
\* agent, dequeued by the worker loop, waits in state queued.
C1_Witness ==
    /\ sem = 0
    /\ \E a, b \in Agents :
          /\ a # b
          /\ run[a] \notin {"none", "done"}
          /\ run[b] = "none"
          /\ ctx[b].state = "queued"
          /\ worker_holding = b

\* C2 as stated: an accept_agent call on an agent in memory whose state is
\* not reviewing leaves the agent's context, its lifecycle record and stable
\* unchanged.
C2_AcceptRequiresReviewing ==
    [][\A a \in Agents :
          (a \in active_agents /\ ctx[a].state # "reviewing" /\ AcceptBegin(a)) =>
              (ctx'[a] = ctx[a] /\ lifecycle'[a] = lifecycle[a] /\ stable' = stable)]_vars

\* C3 as stated: once accept_agent(a) has returned, Status(a) reports
\* accepted for as long as the record exists.
C3_AcceptedAfterAccept ==
    \A a \in Agents :
        (acc_hist[a] = "returned" /\ lifecycle[a].state # "none") => StatusOf(a) = "accepted"

\* C4 as stated: a lifecycle record in state accepted, rejected or errored is
\* never replaced by a record of the same agent with another state (it may
\* only be deleted).
C4_TerminalAbsorbing ==
    [][\A a \in Agents :
          lifecycle[a].state \in TerminalStates =>
              lifecycle'[a].state \in {lifecycle[a].state, "none"}]_vars

\* C5: stable holds bytes written by an agent only once accept_agent was
\* called for that agent, and every step that changes stable is a step of
\* accept's merge loop or a watcher event: spawn, the run's steps (write_file
\* and submit_result included), reject, trash_agent, recovery and cleanup_old
\* leave stable as it is.
C5_StableFrame ==
    /\ [](\A f \in Files : stable[f] \in Agents => acc_hist[stable[f]] # "never")
    /\ [][stable' # stable =>
             \/ \E a \in Agents : AcceptCopy(a)
             \/ \E path \in Files : WatcherWrite(path, HostText) \/ WatcherDelete(path)]_vars

\* Witness C5: an agent wrote a file, was rejected and trashed, and stable
\* still holds the host's bytes at that path.
C5_Witness ==
    \E a \in Agents, f \in Files :
        /\ overlay[a][f] = a
        /\ lifecycle[a].state = "rejected"
        /\ db_file[a] = "bin"
        /\ stable[f] = HostText

C7_Isolation ==
    /\ \A a \in Agents, p \in Files : overlay[a][p] \in {NoFile, a}
    /\ \A p \in Files : stable[p] \in Agents => acc_hist[stable[p]] = "returned"
    /\ read_result # <<>> =>
          LET reader == read_result[1]
              r == read_result[3]
          IN  (r[1] = "str" /\ r[2] \in Agents /\ r[2] # reader) => acc_hist[r[2]] = "returned"

\* Witness C7: two agents, neither accepted, wrote the same path; the second
\* read its own text back and stable still holds the host's bytes.
C7_Witness ==
    \E a1, a2 \in Agents, p \in Files :
        /\ a1 # a2
        /\ acc_hist[a1] = "never" /\ acc_hist[a2] = "never"
        /\ overlay[a1][p] = a1
        /\ overlay[a2][p] = a2
        /\ stable[p] = HostText
        /\ read_result = <<a2, p, AgentText(a2)>>

\* C8 as stated: read_file(p) returns the overlay's bytes when p is in the
\* overlay, stable's bytes when p is only in stable, and fails with not-found
\* when p is in neither layer.
C8_ReadThrough ==
    [][\A a \in Agents, p \in Files :
          ExtReadFile(a, p) =>
              read_result'[3] = IF overlay[a][p] # NoFile THEN <<"str", overlay[a][p]>>
                                ELSE IF stable[p] # NoFile THEN <<"str", stable[p]>>
                                ELSE <<"FileNotFoundError", 0>>]_vars

\* ------------------------------------------------------------------------
\* Queue claims
\* ------------------------------------------------------------------------
\* C9: the task a dequeue returns has a priority greater than or equal to
\* the priority of every task still in the queue at that moment.
C9_DequeueHighestPriority ==
    [][(QDequeue /\ dq_result' # <<>>) =>
          \A i \in DOMAIN queue' : queue'[i].priority <= dq_result'[1].priority]_qvars

\* Witness C9: a dequeue has returned a task while a task of strictly lower
\* priority is still queued.
C9_Witness ==
    /\ dq_result # <<>>
    /\ \E i \in DOMAIN queue : queue[i].priority < dq_result[1].priority

\* C10 as stated: a returned task leaves no earlier-enqueued task of the same
\* priority behind (tasks are numbered in enqueue order).
C10_FifoByEnqueueOrder ==
    [][(QDequeue /\ dq_result' # <<>>) =>
          \A i \in DOMAIN queue' :
              queue'[i].priority = dq_result'[1].priority => queue'[i].task > dq_result'[1].task]_qvars

\* C10 amended: a returned task leaves behind no task of the same priority
\* with a strictly earlier enqueue timestamp.
C10_FifoByTimestamp ==
    [][(QDequeue /\ dq_result' # <<>>) =>
          \A i \in DOMAIN queue' :
              queue'[i].priority = dq_result'[1].priority =>
                  queue'[i].created_at >= dq_result'[1].created_at]_qvars

\* Witness C10: a task was returned while a same-priority task with a later
\* timestamp is still queued.
C10_Witness ==
    /\ dq_result # <<>>
    /\ \E i \in DOMAIN queue :
          /\ queue[i].priority = dq_result[1].priority
          /\ queue[i].created_at > dq_result[1].created_at

\* C28: dequeue returns a task only while active_count < max_concurrent and
\* the queue is not empty, and None otherwise; 0 <= active_count <=
\* max_concurrent always; mark_complete with active_count > 0 lowers
\* active_count by one and raises completed_count by one, and with
\* active_count = 0 changes nothing.
C28_QueueCounters ==
    /\ [](0 <= active_count /\ active_count <= max_concurrent)
    /\ [][/\ QDequeue =>
                IF active_count < max_concurrent /\ queue # <<>>
                THEN /\ dq_result' # <<>>
                     /\ active_count' = active_count + 1
                     /\ Len(queue') = Len(queue) - 1
                ELSE /\ dq_result' = <<>>
                     /\ UNCHANGED <<queue, active_count, completed_count>>
           /\ QMarkComplete =>
                IF active_count > 0
                THEN /\ active_count' = active_count - 1
                     /\ completed_count' = completed_count + 1
                     /\ UNCHANGED queue
                ELSE UNCHANGED <<queue, active_count, completed_count>>]_qvars

\* Witness C28: a dequeue was refused at the cap with a task waiting, after a
\* mark_complete was counted.
C28_Witness ==
    /\ active_count = max_concurrent
    /\ queue # <<>>
    /\ dq_result = <<>>
    /\ completed_count > 0

\* ------------------------------------------------------------------------
\* Dispatch order (DispatchSpec)
\* ------------------------------------------------------------------------
\* the agents that were enqueued and are still in the queue
InQueue == {queue[i].task : i \in 1..Len(queue)}

\* C11: agents are dispatched in priority order: whenever a lifecycle run is
\* started, no agent that is still waiting in the queue in state queued has a
\* strictly higher priority than the agent whose run starts.
C11_PriorityDispatch ==
    [][\A a \in Agents :
         (run[a] = "none" /\ run'[a] = "begin") =>
             \A b \in InQueue \ {a} :
                 ctx[b].state = "queued" => ctx[b].priority <= ctx[a].priority]_vars

\* ------------------------------------------------------------------------
\* The lifecycle run (Spec)
\* ------------------------------------------------------------------------
RunOrder == <<"queued", "spawning", "generating", "executing", "submitting", "reviewing">>

IsPrefix(h, full) ==
    /\ Len(h) <= Len(full)
    /\ \A i \in 1..Len(h) : h[i] = full[i]

Last(h) == h[Len(h)]

\* C12: the states spawn_agent and the lifecycle run persist for an agent are,
\* in order, a prefix of queued, spawning, generating, executing, submitting,
\* reviewing, optionally followed by errored: no state is skipped, repeated
\* or out of order, nothing follows reviewing or errored, and a run that
\* persisted a state ended at reviewing or errored.
C12_RunSequence ==
    \A a \in Agents :
        LET h == run_hist[a]
        IN  /\ \/ IsPrefix(h, RunOrder)
               \/ /\ Len(h) > 1
                  /\ Last(h) = "errored"
                  /\ Len(h) - 1 < Len(RunOrder)
                  /\ IsPrefix(SubSeq(h, 1, Len(h) - 1), RunOrder)
            /\ (run[a] = "done" /\ Len(h) > 1) => Last(h) \in {"reviewing", "errored"}

C12_Witness ==
    \E a, b \in Agents :
        /\ run_hist[a] = RunOrder
        /\ run[a] = "done"
        /\ Len(run_hist[b]) > 1
        /\ Last(run_hist[b]) = "errored"

\* C13: when a step of a lifecycle run raises (the run ends without reaching
\* reviewing), the agent's context is errored and carries the error message,
\* the persisted record holds the same state and message, and the run's
\* permit is given back.
C13_RunFailure ==
    [][\A a \in Agents :
         (/\ run[a] \in {"spawning", "generating", "executing", "submitting"}
          /\ run'[a] = "done"
          /\ Last(run_hist'[a]) # "reviewing") =>
             /\ ctx'[a].state = "errored"
             /\ ctx'[a].error # None
             /\ lifecycle'[a].state = "errored"
             /\ lifecycle'[a].error = ctx'[a].error
             /\ lifecycle'[a].state_changed_at = ctx'[a].state_changed_at
             /\ sem' = sem + 1]_vars

C13_Witness ==
    \E a \in Agents :
        /\ run[a] = "done"
        /\ lifecycle[a].state = "errored"
        /\ lifecycle[a].error = "execution failed"
        /\ sem = max_concurrent_agents

\* ------------------------------------------------------------------------
\* trash_agent, Accept and Reject (StableSpec, Spec)
\* ------------------------------------------------------------------------
\* this step is the last step of accept_agent(a) or reject_agent(a): the
\* trash_agent(a) call, after which the command returns
TrashStep(a) ==
    /\ phase' = "up"
    /\ \/ acc[a] = "copy" /\ merge_todo[a] = <<>> /\ acc'[a] = "idle"
       \/ rej[a] = "trash" /\ rej'[a] = "idle"

\* C14: trash_agent is idempotent: a trash_agent(a) call made after an earlier
\* trash_agent(a) call has trashed the agent changes nothing: the in-memory
\* agent set, a's lifecycle record, the location of a's overlay file and
\* stable are as the first call left them.
C14_TrashIdempotent ==
    [][\A a \in Agents :
         (TrashStep(a) /\ a \notin active_agents /\ db_file[a] = "bin") =>
             /\ active_agents' = active_agents
             /\ lifecycle'[a] = lifecycle[a]
             /\ db_file' = db_file
             /\ stable' = stable]_vars

\* both commands ran trash_agent on the same agent: the accept returned after
\* the reject had trashed the agent
C14_Witness ==
    \E a \in Agents :
        /\ acc_hist[a] = "returned"
        /\ lifecycle[a].state = "rejected"
        /\ lifecycle[a].db_path = "bin"
        /\ db_file[a] = "bin"
        /\ acc[a] = "idle"
        /\ rej[a] = "idle"
        /\ a \notin active_agents

\* C15: after Accept(a) or Reject(a) returns, agent a is not in the in-memory
\* agent set, its overlay file is at the trash name (bin-<id>.db), and its
\* persisted record is in a terminal state (accepted or rejected) with a
\* location that names the trashed file.
C15_AfterAcceptOrReject ==
    [][\A a \in Agents :
         TrashStep(a) =>
             /\ a \notin active_agents'
             /\ db_file'[a] = "bin"
             /\ lifecycle'[a].state \in {"accepted", "rejected"}
             /\ lifecycle'[a].db_path = "bin"]_vars

\* ------------------------------------------------------------------------
\* Retention and timestamps (RetentionSpec)
\* ------------------------------------------------------------------------
\* C17: cleanup_old(T) deletes exactly the records whose state is accepted,
\* rejected or errored and whose state_changed_at is older than now - T,
\* leaves every other record as it was, and returns the number of records
\* it deleted.
C17_CleanupExact ==
    [][cleanup_call'[1] # cleanup_call[1] =>
         LET T == cleanup_call'[2]
             old == {a \in Agents :
                       /\ lifecycle[a].state \in {"accepted", "rejected", "errored"}
                       /\ clock - lifecycle[a].state_changed_at > T}
         IN  /\ \A a \in old : lifecycle'[a] = NoRecord
             /\ \A a \in Agents \ old : lifecycle'[a] = lifecycle[a]
             /\ cleaned' = Cardinality(old)]_vars

\* a call deleted one terminal record and kept another that was not old enough
C17_Witness ==
    \E a, b \in Agents :
        /\ cleanup_call[1] > 0
        /\ cleaned = 1
        /\ a < next_agent
        /\ lifecycle[a] = NoRecord
        /\ lifecycle[b].state \in {"rejected", "errored"}
        /\ lifecycle[b].state_changed_at = clock
        /\ cleanup_call[2] = 0

\* C16: every persisted lifecycle record has state_changed_at >= created_at,
\* every state transition of an agent in memory sets state_changed_at to the
\* current time, and the state_changed_at of an agent's record never
\* decreases from one write to the next.
C16_Timestamps ==
    /\ [](\A a \in Agents :
             lifecycle[a].state # "none" =>
                 lifecycle[a].state_changed_at >= lifecycle[a].created_at)
    /\ [][\A a \in Agents :
             (/\ phase = "up"
              /\ phase' = "up"
              /\ ctx'[a].state # ctx[a].state) =>
                 /\ ctx'[a].state_changed_at = clock
                 /\ lifecycle'[a].state_changed_at = clock]_vars
    /\ [][\A a \in Agents :
             (lifecycle[a].state # "none" /\ lifecycle'[a].state # "none") =>
                 /\ lifecycle'[a].state_changed_at >= lifecycle[a].state_changed_at
                 /\ lifecycle'[a].created_at = lifecycle[a].created_at]_vars

\* an agent created at one time whose record was written by a transition at
\* a later time
C16_Witness ==
    \E a \in Agents :
        /\ lifecycle[a].state \in {"generating", "reviewing", "errored", "rejected"}
        /\ lifecycle[a].created_at < lifecycle[a].state_changed_at
        /\ lifecycle[a].state_changed_at = clock

\* ------------------------------------------------------------------------
\* Recovery (RecoverySpec)
\* ------------------------------------------------------------------------
\* record rec is one recovery looks at: list_active returns it
ActiveRecord(rec) == rec.state \notin {"none", "accepted", "rejected"}

\* the overlay file record rec of agent a names exists
OverlayExists(a, rec) == db_file[a] = rec.db_path

\* C18: on recovery an active record whose overlay file does not exist is
\* persisted as errored with an error message, its agent is neither put in
\* memory nor enqueued, and recovery goes on: the process comes up and every
\* other active record whose overlay exists is put in memory.
C18_RecoveryMissingOverlay ==
    [][(phase = "down" /\ phase' = "up") =>
         \A a \in Agents :
             (ActiveRecord(lifecycle[a]) /\ ~ OverlayExists(a, lifecycle[a])) =>
                 /\ lifecycle'[a].state = "errored"
                 /\ lifecycle'[a].error # None
                 /\ a \notin active_agents'
                 /\ a \notin InQueue'
                 /\ \A b \in Agents \ {a} :
                        (ActiveRecord(lifecycle[b]) /\ OverlayExists(b, lifecycle[b])) =>
                            b \in active_agents']_vars

\* recovery marked agent a errored and went on to put the later agent b,
\* whose run the process death had interrupted, in memory
C18_Witness ==
    \E a, b \in Agents :
        /\ a < b
        /\ phase = "up"
        /\ lifecycle[a].state = "errored"
        /\ lifecycle[a].error = "Agent DB missing after restart"
        /\ a \notin active_agents
        /\ b \in active_agents
        /\ ctx[b].state = "generating"
        /\ run[b] = "none"

Interrupted(a) ==
    /\ lifecycle[a].state \in {"spawning", "generating", "executing", "submitting"}
    /\ run[a] = "none"

\* C20: under fair scheduling, with at least one permit and generation and
\* the sandbox returning, every agent whose record is queued eventually has a
\* record in reviewing or errored, unless it is accepted or rejected first or
\* the process dies during its run; this holds when other runs fail and when
\* the process dies and starts again while the agent is queued.
C20_EventuallyRuns ==
    \A a \in Agents :
        (lifecycle[a].state = "queued") ~>
            \/ lifecycle[a].state \in {"reviewing", "errored", "accepted", "rejected"}
            \/ Interrupted(a)

\* the process died while an agent was queued, and afterwards one agent
\* reached reviewing and the run of the other failed
C20_Witness ==
    \E a, b \in Agents :
        /\ crashes > 0
        /\ lifecycle[a].state = "reviewing"
        /\ run_hist[a] = RunOrder
        /\ lifecycle[b].state = "errored"
        /\ Last(run_hist[b]) = "errored"


\* ------------------------------------------------------------------------
\* Command parsing claims (CommandSpec)
\* ------------------------------------------------------------------------
QueueTags == {<<"str", "queue">>, <<"enum", "queue">>}
SpawnTags == {<<"str", "spawn">>, <<"str", "Spawn">>}
Parsed == parse_out # NoResult
HasTask == parse_in[2].task \notin {<<>>, <<"">>}

\* C21: with a task and no priority in the payload, parse_command turns the
\* tag queue into a Queue command of priority NORMAL and the tag spawn into a
\* Queue command of priority HIGH; a priority given in the payload is the
\* command's priority under either tag.
C21_ParseDefaults ==
    (Parsed /\ HasTask /\ parse_in[1] \in QueueTags \cup SpawnTags) =>
        LET given == parse_in[2].priority IN
        /\ (given = <<>> /\ parse_in[1] \in QueueTags) =>
               /\ parse_out.status = "ok"
               /\ parse_out.command.type = "queue"
               /\ parse_out.command.priority = <<NORMAL>>
        /\ (given = <<>> /\ parse_in[1] \in SpawnTags) =>
               /\ parse_out.status = "ok"
               /\ parse_out.command.type = "queue"
               /\ parse_out.command.priority = <<HIGH>>
        /\ (given # <<>> /\ given[1] \in TaskPriority) =>
               /\ parse_out.status = "ok"
               /\ parse_out.command.type = "queue"
               /\ parse_out.command.priority = given

C21_Witness ==
    /\ parse_in # NoCall
    /\ parse_in[1] = <<"str", "spawn">>
    /\ parse_in[2].priority = <<>>
    /\ parse_out.status = "ok"
    /\ parse_out.command.priority = <<HIGH>>


NeedsAgent == {<<"str", "accept">>, <<"str", "reject">>, <<"str", "status">>}
NothingCreated ==
    /\ queue = <<>>
    /\ active_agents = {}
    /\ to_enqueue = {}
    /\ \A a \in Agents : lifecycle[a] = NoRecord /\ db_file[a] = "none"

\* C22: parse_command raises the invalid-command error (ValueError) for a
\* Queue command whose task is missing or empty, for Accept, Reject and Status
\* without an agent_id and for an unknown tag; after a failed parse there is no
\* agent, no lifecycle record and no queue entry.
C22_InvalidCommand ==
    Parsed =>
        /\ (parse_in[1] \in QueueTags \cup SpawnTags /\ ~ HasTask) =>
               parse_out.status = "ValueError"
        /\ (parse_in[1] \in NeedsAgent /\ parse_in[2].agent_id \in {<<>>, <<"">>}) =>
               parse_out.status = "ValueError"
        /\ parse_in[1] = <<"str", "bogus">> => parse_out.status = "ValueError"
        /\ parse_out.status = "ValueError" => NothingCreated

C22_Witness ==
    /\ Parsed
    /\ parse_in[1] = <<"str", "status">>
    /\ parse_in[2].agent_id = <<>>
    /\ parse_out.status = "ValueError"

\* C23: for every command c that parse_command produced, parsing
\* c.to_payload() under its own type field gives c again: same type, agent_id,
\* task, priority and metadata.
C23_RoundTrip ==
    reparse_out # NoResult =>
        /\ reparse_out.status = "ok"
        /\ reparse_out.command = parse_out.command

C23_Witness ==
    /\ reparse_out.status = "ok"
    /\ parse_in[1] = <<"str", "spawn">>
    /\ parse_in[2].priority = <<>>
    /\ parse_in[2].metadata = <<"{k}">>
    /\ reparse_out.command.priority = <<HIGH>>
    /\ reparse_out.command.metadata = "{k}"


\* ------------------------------------------------------------------------
\* Signal polling claims (SignalSpec)
\* ------------------------------------------------------------------------
\* C25: every signal file the poller handles is unlinked when its handling
\* ends, whatever the outcome (dispatched, skipped for want of a tag, parse
\* failure, dispatch failure), and no signal file is handled twice.
C25_UnlinkAlways ==
    [][handled' # handled =>
          /\ signals_dir'[handled'[Len(handled')].stem] = Absent
          /\ \A i, j \in DOMAIN handled' : handled'[i].stem = handled'[j].stem => i = j]_vars

C25_Witness ==
    /\ \E i \in DOMAIN handled : handled[i].outcome = "skipped"
    /\ \E i \in DOMAIN handled : handled[i].outcome = "dispatched"
    /\ \A stem \in SignalStems : signals_dir[stem] = Absent


\* C26: a signal file that cannot be decoded or that yields an invalid
\* command is skipped without stopping the poller: after such a file the
\* poller goes on with the remaining files of the poll and with later polls.
C26_PollerSurvives ==
    (handled # <<>> /\ handled[Len(handled)].outcome = "parse_failed") => poller # "dead"

\* the payload a file gives (empty when the file is not a JSON object)
PayloadOf(h) == IF h.content.kind = "object" THEN h.content.payload ELSE EmptyPayload

\* the tag the claim gives a handled file: the payload's type, else the
\* file-name prefix, else none
TagOf(h) ==
    IF PayloadOf(h).type # <<>> THEN PayloadOf(h).type[1]
    ELSE IF h.stem.prefix \in {"spawn", "queue", "accept", "reject"} THEN h.stem.prefix
    ELSE "none"

\* the command type a tag stands for (case lowered, spawn an alias of queue)
KindOf(tag) ==
    CASE tag \in {"queue", "spawn"} -> "queue"
      [] tag \in {"accept", "Accept"} -> "accept"
      [] tag = "reject" -> "reject"
      [] OTHER -> "none"

\* the file stem without the prefix of its command
Stripped(h) ==
    IF h.stem.prefix = KindOf(TagOf(h)) THEN h.stem.rest ELSE StemText(h.stem)

\* C27: the tag of a signal file is its payload's type field when there is
\* one, whatever the file name, and otherwise the file-name prefix (spawn-,
\* queue-, accept-, reject-); without a tag nothing is dispatched; an accept
\* or reject whose payload has no agent_id gets the file stem with the prefix
\* stripped as its agent_id.
C27_TagAndAgentId ==
    \A i \in DOMAIN handled :
        LET h == handled[i] IN
        h.content.kind # "binary" =>
            /\ TagOf(h) = "none" <=> h.outcome = "skipped"
            /\ h.outcome \in {"dispatched", "dispatch_failed"} =>
                   h.command.type = KindOf(TagOf(h))
            /\ (KindOf(TagOf(h)) \in {"accept", "reject"} /\ PayloadOf(h).agent_id = <<>>) =>
                   /\ h.outcome \in {"dispatched", "dispatch_failed"}
                   /\ h.command.agent_id = <<Stripped(h)>>


\* ------------------------------------------------------------------------
\* The two adapters (AdapterSpec)
\* ------------------------------------------------------------------------
\* C24: for the same operation and argument (spawn task, queue task, accept
\* id, reject id) the command the CLI adapter builds and the command the
\* signal adapter builds from the corresponding signal file are equal.
C24_AdaptersAgree ==
    (cli_out # NoResult /\ sig_out # NoResult) => cli_out = sig_out

C24_Witness ==
    /\ adapter_in = <<"spawn", "t">>
    /\ sig_file.stem = Stem("spawn", "x")
    /\ sig_file.content.payload.priority = <<>>
    /\ sig_out.status = "ok"
    /\ cli_out.status = "ok"
    /\ cli_out.command.priority = <<HIGH>>


\* ------------------------------------------------------------------------
\* Persisted transitions and status reports (ReportSpec)
\* ------------------------------------------------------------------------
\* C29: each transition of a run is persisted before the phase it announces
\* begins: while code is generated the record shows generating, while the
\* sandbox runs it shows executing, while the submission is read it shows
\* submitting; and a Status or ListAgents answered between two transitions of
\* an agent reports the state the earlier of them persisted.
C29_PersistedBeforePhase ==
    /\ [](\A a \in Agents :
             run[a] \in {"generating", "executing", "submitting"} =>
                 /\ lifecycle[a].state = run[a]
                 /\ Last(run_hist[a]) = run[a])
    /\ [][\A a \in Agents :
             (report' # report /\ report'[a] # "unasked" /\ run[a] # "saving") =>
                 /\ report'[a] = lifecycle[a].state
                 /\ run_hist[a] # <<>> => report'[a] = Last(run_hist[a])]_vars

C29_Witness ==
    \E a \in Agents :
        /\ run[a] = "executing"
        /\ report[a] = "generating"
        /\ lifecycle[a].state = "executing"


\* ------------------------------------------------------------------------
\* Failed runs (Spec)
\* ------------------------------------------------------------------------
\* C30: when a lifecycle run has failed and the agent is errored, the agent's
\* resources have been released through trash_agent: the overlay file is
\* under its trash name (the handle closed) and the agent is no longer in the
\* in-memory agent set.
C30_ErroredReleased ==
    \A a \in Agents :
        (run[a] = "done" /\ run_hist[a] # <<>> /\ Last(run_hist[a]) = "errored"
            /\ phase = "up" /\ acc[a] = "idle" /\ rej[a] = "idle") =>
            /\ a \notin active_agents
            /\ db_file[a] # "active"


\* ------------------------------------------------------------------------
\* Validation and execution results (RunSpec)
\* ------------------------------------------------------------------------
States(h) == {h[i] : i \in DOMAIN h}

C32_MemorySubsetAtRest ==
    \A a \in active_agents :
        (a \notin to_enqueue /\ acc[a] = "idle" /\ rej[a] = "idle") =>
            lifecycle[a].state \notin {"none", "accepted", "rejected"}

\* ------------------------------------------------------------------------
\* Record before enqueue (RetentionSpec)
\* ------------------------------------------------------------------------
\* the ids the worker loop has taken from the queue and not yet looked up
Dequeued == {a \in Agents : worker_holding = a \/ run[a] = "begin"}

\* C33: when spawn_agent pushes an id and returns it, the record of that id
\* was already persisted, first with state queued, and the id is on the queue
\* at the return; every id on the queue or just taken from it by the worker
\* has a persisted record.
C33_RecordBeforeEnqueue ==
    /\ [][\A a \in Agents :
            (a \in to_enqueue /\ a \notin to_enqueue' /\ phase' = "up") =>
                /\ lifecycle[a] # NoRecord
                /\ run_hist[a][1] = "queued"
                /\ a \in InQueue']_vars
    /\ [](\A a \in InQueue \cup Dequeued : lifecycle[a] # NoRecord)


\* ------------------------------------------------------------------------
\* Merges into stable (MergeSpec)
\* ------------------------------------------------------------------------
\* the accept of a has copied an entry and has entries left to copy
PartWay(a) ==
    /\ acc[a] = "copy"
    /\ merge_todo[a] # <<>>
    /\ merge_todo[a] # readdir(overlay[a], Root)

\* the whole merge of a's overlay into dst
Merged(a, dst) == merge_overlay_to_stable(readdir(overlay[a], Root), overlay[a], dst)

\* C34: at no moment are two accepts both part-way through copying files
\* into stable, and once the accepts of two agents have returned stable is
\* the result of the two merges run one after the other in some order.
C34_MergesSerialized ==
    /\ \A a, b \in Agents : a # b => ~ (PartWay(a) /\ PartWay(b))
    /\ \A a, b \in Agents :
        (a # b /\ acc_hist[a] = "returned" /\ acc_hist[b] = "returned") =>
            stable \in {Merged(b, Merged(a, EmptyFs)), Merged(a, Merged(b, EmptyFs))}


\* the files of a's overlay that are not in stable
NotCopied(a) == {f \in Files : overlay[a][f] # NoFile /\ stable[f] = NoFile}

\* C35: when reading or writing one file fails during an accept's merge,
\* every other file of the agent's overlay is still copied into stable: once
\* the accept is over at most the failed file is missing from stable.
C35_FileFailureSkipsOneFile ==
    \A a \in Agents : acc_hist[a] = "raised" => Cardinality(NotCopied(a)) <= 1


\* ------------------------------------------------------------------------
\* Accept and Reject of one agent (StableSpec)
\* ------------------------------------------------------------------------
\* C36: an agent whose final persisted state is rejected has none of its
\* overlay files in stable, whatever the interleaving of the Accept and
\* Reject commands issued for it.
C36_RejectedNeverMerged ==
    \A a \in Agents :
        (lifecycle[a].state = "rejected" /\ acc[a] = "idle" /\ rej[a] = "idle") =>
            \A f \in Files : stable[f] # encode_utf8(AgentText(a))


\* ------------------------------------------------------------------------
\* Submission forms (SubmissionSpec)
\* ------------------------------------------------------------------------
\* C37: what the runner stores in the record during submitting is the
\* {summary, changed_files} payload the script passed to submit_result,
\* whether the KV holds the tagged or the legacy form, and load_submission
\* yields that same payload for either form.
C37_SubmissionIsPayload ==
    [][/\ sub_runner' # sub_runner => sub_runner' = sub_script
       /\ sub_loaded' # sub_loaded => sub_loaded' = sub_script]_vars


\* ------------------------------------------------------------------------
\* Permit accounting (Spec)
\* ------------------------------------------------------------------------
\* the lifecycle runs in progress
Running == {a \in Agents : run[a] \notin {"none", "done"}}

\* C38: the free permits plus the runs in progress always equal
\* max_concurrent_agents, and a run that ends (in reviewing, in errored, or
\* because its agent is no longer in memory) frees exactly one permit.
C38_PermitsConserved ==
    /\ [](sem + Cardinality(Running) = max_concurrent_agents)
    /\ [][\A a \in Agents :
            (a \in Running /\ run'[a] = "done") => sem' = sem + 1]_vars

C38_Witness ==
    \E b, c \in Agents :
        /\ run[b] = "done"
        /\ b \notin active_agents
        /\ "spawning" \notin {run_hist[b][i] : i \in 1..Len(run_hist[b])}
        /\ c \in Running
        /\ sem = max_concurrent_agents - 1


C40_CleanupSparesMemory ==
    [][\A a \in active_agents :
        (acc[a] = "idle" /\ rej[a] = "idle") =>
            /\ lifecycle[a] # NoRecord => lifecycle'[a] # NoRecord
            /\ db_file[a] # "none" => db_file'[a] # "none"]_vars

====
